---- MODULE Spec2Model ----
(***************************************************************************)
(* State-machine model of the rustfs disk layer: the DiskError taxonomy    *)
(* and its helper predicates (rustfs-disk-core), the contextual I/O error  *)
(* classifiers, the RemoteDisk client (rustfs-disk-remote) and the         *)
(* LocalDisk engine over a filesystem (rustfs-disk-local).                 *)
(*                                                                         *)
(* Conventions.  Option<T> is a sequence of length at most one: None is    *)
(* <<>> and Some(x) is <<x>>.  Text (String) is a sequence of one-token    *)
(* strings.  A DiskError is a record [kind, aux]: kind is the enum         *)
(* variant, aux the data the variant carries (a sequence of tokens).       *)
(* Result<T> is a record [tag, val, err].                                  *)
(***************************************************************************)
EXTENDS Integers, Sequences, FiniteSets, TLC

VARIABLES
    errs,      \* input of the error helpers: a list of Option<DiskError>
    codes,     \* input of has_part_err: a list of usize status codes
    ioerr,     \* input of the classifiers: Option<io::Error>
    out,       \* the last pure function applied and what it returned
    id,        \* RemoteDisk.id: the cached Option<Uuid> behind the mutex
    lastSet,   \* history: the argument of the latest set_disk_id, if any
    ret,       \* the last RemoteDisk call: its inputs and its Result
    cell,      \* RemoteDisk.id as memory words, for concurrent callers
    lock,      \* the task holding the futures::lock::Mutex guard, 0 when free
    pc,        \* where each task is in its get_disk_id / set_disk_id call
    req,       \* the argument of each task's set_disk_id call
    tmp,       \* the words each task's get_disk_id copied out of the cell
    got,       \* what the latest get_disk_id returned, None before the first
    cand,      \* history: completed writes not yet overwritten for certain
    snap,      \* history: the writes that were complete when a set was called
    adm,       \* history: the values a get in progress may return
    lin,       \* history: every get so far returned a value it may return
    fs,        \* the filesystem under LocalDisk.root_path
    mounts,    \* the volumes that are mount points of other filesystems
    lret,      \* the last LocalDisk call: its inputs and its Result
    rn,        \* the rename_file call in progress and its file
    seen,      \* what the concurrent observer's latest stat found
    call,      \* the last call that keeps no state: its inputs and what it gave
    hs         \* the hasher in use and the history of its calls

pureVars == <<errs, codes, ioerr, out>>
remoteVars == <<id, lastSet, ret>>
concVars == <<cell, lock, pc, req, tmp, got, cand, snap, adm, lin>>
localVars == <<fs, mounts, lret, rn, seen>>
callVars == <<call, hs>>
vars == <<pureVars, remoteVars, concVars, localVars, callVars>>

\* ------------------------------------------------------------------ bounds
MaxErrs == 3      \* longest list of per-disk outcomes
MaxCodes == 3     \* longest list of part status codes
MaxCode == 6      \* largest usize status code drawn as an input
MaxSeed == 2      \* hasher states a DiskError is hashed into
MaxText == 2      \* longest error text a peer or the transport reports
MaxUuid == 1      \* distinct disk identifiers
NumTasks == 2     \* tasks calling get_disk_id / set_disk_id concurrently

\* ------------------------------------------------------- Option and Result
None == <<>>
Some(x) == <<x>>
IsSome(o) == Len(o) = 1
Unwrap(o) == o[1]

\* ------------------------------------------------------- DiskError (enum)
\* The variants of DiskError in declaration order; the position of a variant
\* is its discriminant.
DiskErrorKinds ==
    << "MaxVersionsExceeded", "Unexpected", "CorruptedFormat", "CorruptedBackend",
       "UnformattedDisk", "InconsistentDisk", "UnsupportedDisk", "DiskFull",
       "DiskNotDir", "DiskNotFound", "DiskOngoingReq", "DriveIsRoot",
       "FaultyRemoteDisk", "FaultyDisk", "DiskAccessDenied", "FileNotFound",
       "FileVersionNotFound", "TooManyOpenFiles", "FileNameTooLong", "VolumeExists",
       "IsNotRegular", "PathNotFound", "VolumeNotFound", "VolumeNotEmpty",
       "VolumeAccessDenied", "FileAccessDenied", "FileCorrupt", "ShortWrite",
       "BitrotHashAlgoInvalid", "CrossDeviceLink", "LessData", "MoreData",
       "OutdatedXLMeta", "PartMissingOrCorrupt", "NoHealRequired", "MethodNotAllowed",
       "ErasureWriteQuorum", "ErasureReadQuorum", "NotImplemented", "Io", "Custom" >>

DataKinds == {"NotImplemented", "Io", "Custom"}
UnitKinds == {DiskErrorKinds[i] : i \in 1..Len(DiskErrorKinds)} \ DataKinds

\* A variant that carries no data.
Unit(k) == [kind |-> k, aux |-> <<>>]

\* DiskError::custom(message)
custom(message) == [kind |-> "Custom", aux |-> message]

\* DiskError::not_implemented(operation)
not_implemented(operation) == [kind |-> "NotImplemented", aux |-> <<operation>>]

\* An io::Error is <<kind>> \o message; DiskError::Io(e) carries it whole.
IoError(k, msg) == <<k>> \o msg
Io(e) == [kind |-> "Io", aux |-> e]

\* DiskError::other(error) = DiskError::Io(io::Error::other(error))
other(msg) == Io(IoError("Other", msg))

\* std::mem::discriminant: the index of the variant, whatever it carries.
discriminant(e) ==
    CHOOSE i \in 1..Len(DiskErrorKinds) : DiskErrorKinds[i] = e.kind

\* ---------------------------------------- impl PartialEq / Hash for DiskError
\* What #[derive(PartialEq)] would give: variant and carried data both compared.
DerivedEq(a, b) == a.kind = b.kind /\ a.aux = b.aux

DiskError_eq(a, b) == discriminant(a) = discriminant(b)

\* The hasher the caller passes in: a 16-bit state mixed with each word written.
HashWidth == 65536
Mix(state, word) == (state * 31 + word + 1) % HashWidth

RECURSIVE AuxWords(_)
\* The carried data as words, as a derived Hash would feed them to the hasher.
AuxWords(aux) ==
    IF aux = <<>> THEN 0
    ELSE (AuxWords(Tail(aux)) * 7 + (IF Head(aux) = "a" THEN 1 ELSE 2)) % HashWidth

DerivedHash(e, state) == Mix(Mix(state, discriminant(e)), AuxWords(e.aux))

DiskError_hash(e, state) == Mix(state, discriminant(e))

\* ------------------------------------------------- DiskError helper predicates
RECURSIVE AllNotFoundFrom(_, _)
\* The loop of is_all_not_found from entry i on: a present FileNotFound or
\* FileVersionNotFound continues, anything else returns false; after the loop
\* the answer is !errs.is_empty().
AllNotFoundFrom(es, i) ==
    IF i > Len(es) THEN Len(es) # 0
    ELSE IF IsSome(es[i])
         THEN IF \/ DiskError_eq(Unwrap(es[i]), Unit("FileNotFound"))
                 \/ DiskError_eq(Unwrap(es[i]), Unit("FileVersionNotFound"))
              THEN AllNotFoundFrom(es, i + 1)
              ELSE FALSE
         ELSE FALSE

\* A loop that skips absent entries instead of returning false on them.
AllNotFoundSkippingNone(es) ==
    /\ Len(es) # 0
    /\ \A i \in 1..Len(es) :
         IsSome(es[i]) => Unwrap(es[i]).kind \in {"FileNotFound", "FileVersionNotFound"}

is_all_not_found(es) == AllNotFoundFrom(es, 1)

\* ------------------------------------------------------ part status codes
CHECK_PART_UNKNOWN == 0
CHECK_PART_SUCCESS == 1
CHECK_PART_DISK_NOT_FOUND == 2
CHECK_PART_VOLUME_NOT_FOUND == 3
CHECK_PART_FILE_NOT_FOUND == 4
CHECK_PART_FILE_CORRUPT == 5

\* A mapping that reports success for the kinds without a code of their own.
ConvOtherAsSuccess(err) ==
    IF ~IsSome(err) THEN CHECK_PART_SUCCESS
    ELSE CASE Unwrap(err).kind = "DiskNotFound" -> CHECK_PART_DISK_NOT_FOUND
           [] Unwrap(err).kind = "VolumeNotFound" -> CHECK_PART_VOLUME_NOT_FOUND
           [] Unwrap(err).kind = "FileNotFound" -> CHECK_PART_FILE_NOT_FOUND
           [] Unwrap(err).kind = "FileCorrupt" -> CHECK_PART_FILE_CORRUPT
           [] OTHER -> CHECK_PART_SUCCESS

\* A mapping that also gives FileVersionNotFound the file-not-found code.
ConvVersionAsFile(err) ==
    IF ~IsSome(err) THEN CHECK_PART_SUCCESS
    ELSE CASE Unwrap(err).kind = "DiskNotFound" -> CHECK_PART_DISK_NOT_FOUND
           [] Unwrap(err).kind = "VolumeNotFound" -> CHECK_PART_VOLUME_NOT_FOUND
           [] Unwrap(err).kind \in {"FileNotFound", "FileVersionNotFound"} ->
                  CHECK_PART_FILE_NOT_FOUND
           [] Unwrap(err).kind = "FileCorrupt" -> CHECK_PART_FILE_CORRUPT
           [] OTHER -> CHECK_PART_UNKNOWN

conv_part_err_to_int(err) ==
    IF ~IsSome(err) THEN CHECK_PART_SUCCESS
    ELSE CASE Unwrap(err).kind = "DiskNotFound" -> CHECK_PART_DISK_NOT_FOUND
           [] Unwrap(err).kind = "VolumeNotFound" -> CHECK_PART_VOLUME_NOT_FOUND
           [] Unwrap(err).kind = "FileNotFound" -> CHECK_PART_FILE_NOT_FOUND
           [] Unwrap(err).kind = "FileCorrupt" -> CHECK_PART_FILE_CORRUPT
           [] OTHER -> CHECK_PART_UNKNOWN

\* A test for codes above success only, which misses the unknown code 0.
HasPartErrAboveSuccess(part_errs) ==
    \E i \in 1..Len(part_errs) : part_errs[i] > CHECK_PART_SUCCESS

has_part_err(part_errs) ==
    \E i \in 1..Len(part_errs) : part_errs[i] # CHECK_PART_SUCCESS

\* ------------------------------------------------- error_conv: classifiers
\* std::io::ErrorKind
IoErrorKinds ==
    {"NotFound", "PermissionDenied", "ConnectionRefused", "ConnectionReset",
     "HostUnreachable", "NetworkUnreachable", "ConnectionAborted", "NotConnected",
     "AddrInUse", "AddrNotAvailable", "NetworkDown", "BrokenPipe", "AlreadyExists",
     "WouldBlock", "NotADirectory", "IsADirectory", "DirectoryNotEmpty",
     "ReadOnlyFilesystem", "StaleNetworkFileHandle", "InvalidInput", "InvalidData",
     "TimedOut", "WriteZero", "StorageFull", "NotSeekable", "QuotaExceeded",
     "FileTooLarge", "ResourceBusy", "ExecutableFileBusy", "Deadlock",
     "CrossesDevices", "TooManyLinks", "InvalidFilename", "ArgumentListTooLong",
     "Interrupted", "Unsupported", "UnexpectedEof", "OutOfMemory", "Other"}

\* err.kind()
IoKind(err) == Head(err)

to_file_error(err) ==
    CASE IoKind(err) = "NotFound" -> Unit("FileNotFound")
      [] IoKind(err) = "PermissionDenied" -> Unit("FileAccessDenied")
      [] IoKind(err) = "InvalidInput" -> Unit("FileNameTooLong")
      [] OTHER -> Io(err)

\* A classifier with no arm of its own: every failure passes through.
AccessErrorPassThrough(err) == Io(err)

to_access_error(err) ==
    CASE IoKind(err) = "PermissionDenied" -> Unit("DiskAccessDenied")
      [] OTHER -> Io(err)

\* The volume classifier with the file classifier's arms pasted in.
VolumeErrorAsFile(err) == to_file_error(err)

to_volume_error(err) ==
    CASE IoKind(err) = "NotFound" -> Unit("VolumeNotFound")
      [] IoKind(err) = "PermissionDenied" -> Unit("VolumeAccessDenied")
      [] IoKind(err) = "AlreadyExists" -> Unit("VolumeExists")
      [] OTHER -> Io(err)

\* An identity-read classifier that calls every failure an unformatted disk.
UnformattedAlways(err) == Unit("UnformattedDisk")

to_unformatted_disk_error(err) ==
    CASE IoKind(err) = "NotFound" -> Unit("UnformattedDisk")
      [] OTHER -> Io(err)

\* ------------------------------------------------------------ text helpers
\* The literal texts of remote.rs, one character per element.
PREFIX_SOME ==
    <<"S", "o", "m", "e", "(">>
PREFIX_NONE ==
    <<"N", "o", "n", "e">>
MSG_NO_CLIENT ==
    <<"c", "a", "n", " ", "n", "o", "t", " ", "g", "e", "t", " ", "c", "l", "i", "e",
      "n", "t", ",", " ", "e", "r", "r", ":", " ">>
MSG_GRPC ==
    <<"g", "R", "P", "C", " ", "e", "r", "r", "o", "r", ":", " ">>
MSG_MAKE_VOLUME ==
    <<"F", "a", "i", "l", "e", "d", " ", "t", "o", " ", "m", "a", "k", "e", " ", "v",
      "o", "l", "u", "m", "e", ":", " ">>
MSG_MAKE_VOLUMES ==
    <<"F", "a", "i", "l", "e", "d", " ", "t", "o", " ", "m", "a", "k", "e", " ", "v",
      "o", "l", "u", "m", "e", "s", ":", " ">>
MSG_LIST_VOLUMES ==
    <<"F", "a", "i", "l", "e", "d", " ", "t", "o", " ", "l", "i", "s", "t", " ", "v",
      "o", "l", "u", "m", "e", "s", ":", " ">>
MSG_STAT_VOLUME ==
    <<"F", "a", "i", "l", "e", "d", " ", "t", "o", " ", "s", "t", "a", "t", " ", "v",
      "o", "l", "u", "m", "e", ":", " ">>
MSG_DELETE_VOLUME ==
    <<"F", "a", "i", "l", "e", "d", " ", "t", "o", " ", "d", "e", "l", "e", "t", "e",
      " ", "v", "o", "l", "u", "m", "e", ":", " ">>
\* Whether text t occurs in text s as a run of consecutive characters.
Contains(s, t) ==
    \E k \in 0..(Len(s) - Len(t)) : \A n \in 1..Len(t) : s[k + n] = t[n]

RECURSIVE escape_debug(_)
\* <str as Debug>: a double quote and a backslash are written with a backslash
\* before them, a newline as backslash n, printable characters as they are.
escape_debug(t) ==
    IF t = <<>> THEN <<>>
    ELSE (CASE Head(t) \in {"\"", "\\"} -> <<"\\", Head(t)>>
            [] Head(t) = "\n" -> <<"\\", "n">>
            [] OTHER -> <<Head(t)>>)
             \o escape_debug(Tail(t))

\* format!("{:?}", response.error) for the response's optional error string.
DebugOptString(o) ==
    IF IsSome(o)
    THEN PREFIX_SOME \o <<"\"">> \o escape_debug(Unwrap(o)) \o <<"\"", ")">>
    ELSE PREFIX_NONE

\* ------------------------------------------------ RemoteDisk: control calls
Ok(v) == [tag |-> "Ok", val |-> v, err |-> Unit("-")]
Err(e) == [tag |-> "Err", val |-> <<>>, err |-> e]

\* The shape shared by the five control calls.  connect is the outcome of
\* node_service_time_out_client, rpc that of the call on the client (None, or
\* the Display text of the error), resp the response message, failed the
\* call's own "Failed to ..." text and okval what the call returns on success.
ControlCall(connect, rpc, resp, failed, okval) ==
    IF IsSome(connect)
    THEN Err(other(MSG_NO_CLIENT \o Unwrap(connect)))
    ELSE IF IsSome(rpc)
    THEN Err(other(MSG_GRPC \o Unwrap(rpc)))
    ELSE IF ~resp.success
    THEN Err(custom(failed \o DebugOptString(resp.error)))
    ELSE Ok(okval)

\* A control call that never looks at the response's success flag.
MakeVolumeIgnoringSuccess(connect, rpc, resp) ==
    IF IsSome(connect)
    THEN Err(other(MSG_NO_CLIENT \o Unwrap(connect)))
    ELSE IF IsSome(rpc)
    THEN Err(other(MSG_GRPC \o Unwrap(rpc)))
    ELSE Ok(<<>>)

make_volume_result(connect, rpc, resp) ==
    ControlCall(connect, rpc, resp, MSG_MAKE_VOLUME, <<>>)

make_volumes_result(connect, rpc, resp) ==
    ControlCall(connect, rpc, resp, MSG_MAKE_VOLUMES, <<>>)

\* Ok(volumes): one VolumeInfo {name, created: None} per name of the response.
list_volumes_result(connect, rpc, resp) ==
    ControlCall(connect, rpc, resp, MSG_LIST_VOLUMES, resp.names)

\* Ok(VolumeInfo {name: response.volume_info, created: None})
stat_volume_result(connect, rpc, resp) ==
    ControlCall(connect, rpc, resp, MSG_STAT_VOLUME, resp.names)

delete_volume_result(connect, rpc, resp) ==
    ControlCall(connect, rpc, resp, MSG_DELETE_VOLUME, <<>>)

\* ----------------------------------------------------- inputs of the helpers
\* The DiskError values drawn as inputs: every variant, the data-carrying ones
\* with two different payloads each.
PayloadMsgs == {<<>>, <<"a">>}
DiskErrors ==
    {Unit(k) : k \in UnitKinds}
      \cup {custom(m) : m \in PayloadMsgs}
      \cup {not_implemented(o) : o \in {"read_all", "delete"}}
      \cup {Io(IoError(k, m)) : k \in {"Other", "TimedOut"}, m \in PayloadMsgs}
OptErrors == {None} \cup {Some(e) : e \in DiskErrors}
\* One or two outcomes of any kind (the operands of eq, hash and
\* conv_part_err_to_int), and longer lists of the outcomes a quorum sees most.
ErrPairs == UNION {[1..n -> OptErrors] : n \in 0..2}
QuorumOutcomes ==
    {None, Some(Unit("FileNotFound")), Some(Unit("FileVersionNotFound")),
     Some(Unit("VolumeNotFound")), Some(Unit("DiskNotFound")),
     Some(Io(IoError("Other", <<"a">>)))}
ErrLists == ErrPairs \cup UNION {[1..n -> QuorumOutcomes] : n \in 0..MaxErrs}
CodeLists == UNION {[1..n -> 0..MaxCode] : n \in 0..MaxCodes}

NoCall == [fn |-> "-", i |-> 0, j |-> 0, val |-> <<>>]
Called(f, a, b, v) == [fn |-> f, i |-> a, j |-> b, val |-> <<v>>]

\* ---------------------------------------------------- RemoteDisk: identity
Uuids == <<"u1", "u2", "u3", "u4">>
\* Option<Uuid>: None or one of the first MaxUuid identifiers.
OptUuids == {None} \cup {Some(Uuids[n]) : n \in 1..MaxUuid}

\* The texts a peer or the transport reports: up to MaxText characters.
Chars == {"a", "\"", "\n"}
Texts == UNION {[1..n -> Chars] : n \in 0..MaxText}
OptTexts == {None} \cup {Some(t) : t \in Texts}
VolumeNames == {<<>>, <<"v1">>, <<"v1", "v2">>}

\* What one control call meets: a connection failure, an RPC failure, or a
\* response with its success flag, optional error string and payload.
NoResponse == [success |-> FALSE, error |-> None, names |-> <<>>]
Responses == [success : BOOLEAN, error : OptTexts, names : VolumeNames]
Transports ==
    {[connect |-> Some(t), rpc |-> None, resp |-> NoResponse] : t \in Texts}
      \cup {[connect |-> None, rpc |-> Some(t), resp |-> NoResponse] : t \in Texts}
      \cup {[connect |-> None, rpc |-> None, resp |-> r] : r \in Responses}

NoRet == [op |-> "-", inp |-> [connect |-> None, rpc |-> None, resp |-> NoResponse],
          pre |-> None, res |-> Ok(<<>>)]
Returned(o, t, before, r) == [op |-> o, inp |-> t, pre |-> before, res |-> r]
NoTransport == NoRet.inp

\* ------------------------------------- RemoteDisk: identity, concurrent tasks
Tasks == 1..NumTasks

\* An Option<Uuid> is wider than a machine word: the cell is two words, and a
\* plain store or load of it moves one word at a time.  None is two empty
\* words, Some(u) the two halves of u.
Encode(o) == IF IsSome(o) THEN <<Unwrap(o), Unwrap(o)>> ELSE <<"-", "-">>
Torn == <<"torn", "torn">>
Decode(w) == IF w[1] # w[2] THEN Torn ELSE IF w[1] = "-" THEN None ELSE <<w[1]>>

\* Mutex::lock() resolves for task t only while no guard is alive.
\* A cell with no mutual exclusion: every lock() resolves at once.
LockAlwaysFree(t) == TRUE

LockFree(t) == lock = 0

GetPcs == {"get_lock", "get_read", "get_drop"}
SetPcs == {"set_lock", "set_word1", "set_word2", "set_drop"}
\* The arguments the tasks pass to set_disk_id: None and an identifier.
SetArgs == {None, Some(Uuids[1])}
InitWrite == [w |-> 0, v |-> None]
ConcIdle ==
    /\ cell = Encode(None)
    /\ lock = 0
    /\ pc = [t \in Tasks |-> "idle"]
    /\ req = [t \in Tasks |-> None]
    /\ tmp = [t \in Tasks |-> Encode(None)]
    /\ got = None
    /\ cand = {InitWrite}
    /\ snap = [t \in Tasks |-> {}]
    /\ adm = [t \in Tasks |-> {}]
    /\ lin = TRUE

RemoteIdle == id = None /\ lastSet = None /\ ret = NoRet
PureIdle == errs = <<>> /\ codes = <<>> /\ ioerr = None /\ out = NoCall

\* ------------------------------------------------ LocalDisk: the filesystem
\* A path is the sequence of its components below LocalDisk.root_path; <<>>
\* is the root itself.  The volumes, relative paths and file contents drawn.
Volumes == {"v1", "v2"}
RelPaths == {<<"a">>, <<"d", "a">>}
Datas == {"d1"}

\* self.root_path.join(volume).join(path)
Join(volume, path) == <<volume>> \o path

\* Every path the operations can touch: the volumes, the paths drawn and
\* their parent directories.
FsPaths == {Join(v, p) : v \in Volumes, p \in {<<>>, <<"d">>} \cup RelPaths}

\* What a path holds: nothing, a directory, or a regular file and its bytes.
Absent == [t |-> "none", data |-> ""]
Dir == [t |-> "dir", data |-> ""]
File(d) == [t |-> "file", data |-> d]

\* The root after create_dir_all(&root_path) in LocalDisk::new: an empty
\* directory, but for the volumes in m, where other filesystems are mounted.
NewFs(m) == [p \in FsPaths |-> IF Len(p) = 1 /\ p[1] \in m THEN Dir ELSE Absent]

At(f, p) == IF p = <<>> THEN Dir ELSE f[p]
Parent(p) == SubSeq(p, 1, Len(p) - 1)
Ancestors(p) == {SubSeq(p, 1, n) : n \in 0..(Len(p) - 1)}
Under(p) == {q \in FsPaths : Len(q) > Len(p) /\ SubSeq(q, 1, Len(p)) = p}
Children(f, p) == {q \in Under(p) : Len(q) = Len(p) + 1 /\ f[q].t # "none"}
DirPaths == {<<>>, <<"d">>, <<"a">>}

\* The filesystem a path lies on: that of the mount point it is under, or
\* that of the root.
Device(m, p) == IF Len(p) >= 1 /\ p[1] \in m THEN p[1] ELSE "root"

\* What a system call leaves and returns: the filesystem after it, the
\* io::ErrorKind of its failure if it failed, and the value it yields.
Sys(f, e, v) == [fs |-> f, err |-> e, val |-> v]
SysOk(f, v) == Sys(f, None, v)
SysErr(f, k) == Sys(f, Some(k), <<>>)

\* Path resolution up to the last component: ENOENT at the first ancestor
\* that is missing, ENOTDIR at the first that is a regular file.
Walk(f, p) ==
    IF \A q \in Ancestors(p) : At(f, q).t = "dir"
    THEN None
    ELSE LET bad == CHOOSE q \in Ancestors(p) :
                        /\ At(f, q).t # "dir"
                        /\ \A r \in Ancestors(q) : At(f, r).t = "dir"
         IN  Some(IF At(f, bad).t = "none" THEN "NotFound" ELSE "NotADirectory")

\* Path::exists: metadata(path).is_ok()
exists(f, p) == Walk(f, p) = None /\ At(f, p).t # "none"

\* fs::create_dir_all: mkdir of every missing component; a component that is
\* a regular file fails it (ENOTDIR on the way, EEXIST at the end).
create_dir_all(f, p) ==
    IF \E q \in Ancestors(p) : At(f, q).t = "file"
    THEN SysErr(f, "NotADirectory")
    ELSE IF At(f, p).t = "file"
    THEN SysErr(f, "AlreadyExists")
    ELSE SysOk([q \in FsPaths |->
                  IF q \in (Ancestors(p) \cup {p}) THEN Dir ELSE f[q]], <<>>)

\* fs::remove_dir_all: everything under p is removed, then p itself; a mount
\* point cannot be removed (EBUSY) once it has been emptied.
remove_dir_all(f, m, p) ==
    IF IsSome(Walk(f, p)) THEN SysErr(f, Unwrap(Walk(f, p)))
    ELSE IF At(f, p).t = "none" THEN SysErr(f, "NotFound")
    ELSE IF At(f, p).t = "file" THEN SysErr(f, "NotADirectory")
    ELSE IF Len(p) = 1 /\ p[1] \in m
    THEN SysErr([q \in FsPaths |-> IF q \in Under(p) THEN Absent ELSE f[q]],
                "ResourceBusy")
    ELSE SysOk([q \in FsPaths |->
                  IF q \in (Under(p) \cup {p}) THEN Absent ELSE f[q]], <<>>)

\* File::open: a missing file is ENOENT; a directory opens for reading.
File_open(f, p) ==
    IF IsSome(Walk(f, p)) THEN SysErr(f, Unwrap(Walk(f, p)))
    ELSE IF At(f, p).t = "none" THEN SysErr(f, "NotFound")
    ELSE SysOk(f, <<"FileReader">>)

\* OpenOptions::new().append(true).open: no create flag, so a missing file
\* is ENOENT; a directory cannot be opened for writing (EISDIR).
open_append(f, p) ==
    IF IsSome(Walk(f, p)) THEN SysErr(f, Unwrap(Walk(f, p)))
    ELSE IF At(f, p).t = "none" THEN SysErr(f, "NotFound")
    ELSE IF At(f, p).t = "dir" THEN SysErr(f, "IsADirectory")
    ELSE SysOk(f, <<"FileWriter">>)

\* File::create / fs::write: the file is created or truncated and holds d.
File_create(f, p, d) ==
    IF IsSome(Walk(f, p)) THEN SysErr(f, Unwrap(Walk(f, p)))
    ELSE IF At(f, p).t = "dir" THEN SysErr(f, "IsADirectory")
    ELSE SysOk([f EXCEPT ![p] = File(d)], <<"FileWriter">>)

\* fs::read: the bytes of the file; reading a directory is EISDIR.
fs_read(f, p) ==
    IF IsSome(Walk(f, p)) THEN SysErr(f, Unwrap(Walk(f, p)))
    ELSE IF At(f, p).t = "none" THEN SysErr(f, "NotFound")
    ELSE IF At(f, p).t = "dir" THEN SysErr(f, "IsADirectory")
    ELSE SysOk(f, <<At(f, p).data>>)

\* fs::remove_file: unlink; a directory is EISDIR.
remove_file(f, p) ==
    IF IsSome(Walk(f, p)) THEN SysErr(f, Unwrap(Walk(f, p)))
    ELSE IF At(f, p).t = "none" THEN SysErr(f, "NotFound")
    ELSE IF At(f, p).t = "dir" THEN SysErr(f, "IsADirectory")
    ELSE SysOk([f EXCEPT ![p] = Absent], <<>>)

\* The names read_dir yields, in the order the directory returns them.
EntryNames(f, p) ==
    (IF p \o <<"a">> \in Children(f, p) THEN <<"a">> ELSE <<>>)
      \o (IF p \o <<"d">> \in Children(f, p) THEN <<"d">> ELSE <<>>)

\* fs::read_dir and the next_entry loop over it.
read_dir(f, p) ==
    IF IsSome(Walk(f, p)) THEN SysErr(f, Unwrap(Walk(f, p)))
    ELSE IF At(f, p).t = "none" THEN SysErr(f, "NotFound")
    ELSE IF At(f, p).t = "file" THEN SysErr(f, "NotADirectory")
    ELSE SysOk(f, EntryNames(f, p))

\* A rename made of a copy followed by a removal, after the copy: the file
\* is at the destination and still at the source.
RenameByCopy(f, m, from, to) ==
    IF IsSome(Walk(f, from)) THEN SysErr(f, Unwrap(Walk(f, from)))
    ELSE IF IsSome(Walk(f, to)) THEN SysErr(f, Unwrap(Walk(f, to)))
    ELSE IF At(f, from).t = "none" THEN SysErr(f, "NotFound")
    ELSE IF At(f, to).t = "dir" THEN SysErr(f, "IsADirectory")
    ELSE SysOk([f EXCEPT ![to] = f[from]], <<>>)

\* fs::rename(from, to) of a file or a missing path: rename(2).  Both parent
\* directories are resolved first, then the two must lie on one filesystem
\* (EXDEV), then the source must exist; a file does not replace a directory.
\* On success the file is at to and no longer at from, in one step.
fs_rename(f, m, from, to) ==
    IF IsSome(Walk(f, from)) THEN SysErr(f, Unwrap(Walk(f, from)))
    ELSE IF IsSome(Walk(f, to)) THEN SysErr(f, Unwrap(Walk(f, to)))
    ELSE IF Device(m, from) # Device(m, to) THEN SysErr(f, "CrossesDevices")
    ELSE IF At(f, from).t = "none" THEN SysErr(f, "NotFound")
    ELSE IF At(f, to).t = "dir" THEN SysErr(f, "IsADirectory")
    ELSE IF from = to THEN SysOk(f, <<>>)
    ELSE SysOk([f EXCEPT ![to] = f[from], ![from] = Absent], <<>>)

\* ------------------------------------------------ LocalDisk: the operations
\* The operating system may refuse the first system call of an operation
\* (EACCES); nothing is changed then.
Faults == {None, Some("PermissionDenied")}
Faulted(f, fault, sys) == IF IsSome(fault) THEN SysErr(f, Unwrap(fault)) ELSE sys

\* What an operation leaves and returns.
Out(f, r) == [fs |-> f, res |-> r]

\* .map_err(DiskError::Io): the io::Error is wrapped as it is.
map_err_Io(s) ==
    Out(s.fs, IF IsSome(s.err) THEN Err(Io(IoError(Unwrap(s.err), <<>>)))
              ELSE Ok(s.val))

\* A make_volume that refuses a volume that is already there.
MakeVolumeExclusive(f, m, fault, volume) ==
    IF At(f, <<volume>>).t # "none"
    THEN Out(f, Err(Unit("VolumeExists")))
    ELSE map_err_Io(Faulted(f, fault, create_dir_all(f, <<volume>>)))

LocalDisk_make_volume(f, m, fault, volume) ==
    map_err_Io(Faulted(f, fault, create_dir_all(f, <<volume>>)))

\* A stat_volume that answers for the volume whether it is there or not.
StatVolumeAlwaysOk(f, m, fault, volume) == Out(f, Ok(<<volume>>))

\* Ok(VolumeInfo {name: volume, created: None}) if volume_path.exists()
LocalDisk_stat_volume(f, m, fault, volume) ==
    IF ~(fault = None /\ exists(f, <<volume>>))
    THEN Out(f, Err(Unit("VolumeNotFound")))
    ELSE Out(f, Ok(<<volume>>))

LocalDisk_delete_volume(f, m, fault, volume) ==
    map_err_Io(Faulted(f, fault, remove_dir_all(f, m, <<volume>>)))

LocalDisk_list_dir(f, m, fault, volume, dir_path) ==
    map_err_Io(Faulted(f, fault, read_dir(f, Join(volume, dir_path))))

LocalDisk_read_file(f, m, fault, volume, path) ==
    map_err_Io(Faulted(f, fault, File_open(f, Join(volume, path))))

LocalDisk_append_file(f, m, fault, volume, path) ==
    map_err_Io(Faulted(f, fault, open_append(f, Join(volume, path))))

LocalDisk_delete(f, m, fault, volume, path) ==
    map_err_Io(Faulted(f, fault, remove_file(f, Join(volume, path))))

LocalDisk_read_all(f, m, fault, volume, path) ==
    map_err_Io(Faulted(f, fault, fs_read(f, Join(volume, path))))

\* create_dir_all(parent)?, then the file is created holding data (nothing,
\* for create_file, until the caller writes to the FileWriter).
CreateWithParents(f, fault, file_path, data, okval) ==
    LET made == Faulted(f, fault, create_dir_all(f, Parent(file_path)))
    IN  IF IsSome(made.err) THEN map_err_Io(made)
        ELSE LET s == File_create(made.fs, file_path, data)
             IN  map_err_Io(Sys(s.fs, s.err, IF IsSome(s.err) THEN <<>> ELSE okval))

\* A create_file that leaves the parent directories to the caller.
CreateFileNoParents(f, m, fault, volume, path) ==
    map_err_Io(Faulted(f, fault, File_create(f, Join(volume, path), "")))

LocalDisk_create_file(f, m, fault, volume, path) ==
    CreateWithParents(f, fault, Join(volume, path), "", <<"FileWriter">>)

LocalDisk_write_all(f, m, fault, volume, path, data) ==
    CreateWithParents(f, fault, Join(volume, path), data, <<>>)

LocalDisk_rename_file(f, m, fault, src_volume, src_path, dst_volume, dst_path) ==
    map_err_Io(Faulted(f, fault,
        fs_rename(f, m, Join(src_volume, src_path), Join(dst_volume, dst_path))))

\* "For now, just rename the file"
LocalDisk_rename_part(f, m, fault, src_volume, src_path, dst_volume, dst_path) ==
    LocalDisk_rename_file(f, m, fault, src_volume, src_path, dst_volume, dst_path)

\* The operations LocalDisk answers without touching the disk.
MethodNotAllowedOps ==
    {"walk_dir", "delete_version", "delete_versions", "delete_paths",
     "write_metadata", "update_metadata", "read_version", "read_xl",
     "rename_data"}
PlaceholderOps == {"verify_file", "check_parts", "read_multiple"}

LocalDisk_fixed(op) ==
    CASE op \in MethodNotAllowedOps -> Err(Unit("MethodNotAllowed"))
      [] op \in {"verify_file", "check_parts"} -> Ok(<<CHECK_PART_SUCCESS>>)
      [] op = "read_multiple" -> Ok(<<>>)

\* get_disk_id: "TODO: Read from format.json"; Ok(None) always.
LocalDisk_get_disk_id == Ok(None)

\* set_disk_id: "TODO: Write to format.json"; Ok(()) and nothing written.
LocalDisk_set_disk_id(f, new) == Out(f, Ok(<<>>))

\* ------------------------------------------------ LocalDisk: state and history
\* The volumes that are mount points of other filesystems.
MountChoices == {{}, {"v2"}}

\* The path an operation is about: root_path.join(volume).join(path), the
\* root itself for an operation that names no volume.
Target(vol, path) == IF vol = "-" THEN <<>> ELSE Join(vol, path)

\* The last LocalDisk call: its arguments, the fault it met, what the disk
\* held before it at its path (wasAt) and at the parent directory of its
\* path (wasParent), and its Result.
LocalCall(op, vol, path, dvol, dpath, fault, f, r) ==
    [op |-> op, vol |-> vol, path |-> path, dvol |-> dvol, dpath |-> dpath,
     id |-> None, fault |-> fault,
     wasAt |-> At(f, Target(vol, path)).t,
     wasParent |-> IF Target(vol, path) = <<>> THEN "dir"
                   ELSE At(f, Parent(Target(vol, path))).t,
     res |-> r]

NoRename == [pc |-> "idle", from |-> <<>>, to |-> <<>>, file |-> Absent,
             over |-> Absent, res |-> Ok(<<>>)]
NoSeen == [path |-> <<>>, found |-> Absent]

\* LocalDisk::new over a root where the volumes in m are mount points.
LocalNew(m) ==
    /\ fs = NewFs(m)
    /\ mounts = m
    /\ lret = LocalCall("new", "-", <<>>, "-", <<>>, None, NewFs(m), Ok(<<>>))
    /\ rn = NoRename
    /\ seen = NoSeen

LocalIdle == LocalNew({})

\* ------------------------------------------------ RemoteDisk: unwired calls
\* The contract operations RemoteDisk does not wire to a transport call,
\* each with the literal its body passes to DiskError::not_implemented.
RemoteStubs ==
    [delete_version |-> "delete_version", delete_versions |-> "delete_versions",
     delete_paths |-> "delete_paths", write_metadata |-> "write_metadata",
     update_metadata |-> "update_metadata", read_version |-> "read_version",
     read_xl |-> "read_xl", rename_data |-> "rename_data",
     list_dir |-> "list_dir", create_file |-> "create_file",
     rename_file |-> "rename_file", rename_part |-> "rename_part",
     delete |-> "delete", verify_file |-> "verify_file",
     check_parts |-> "check_parts", read_multiple |-> "read_multiple",
     write_all |-> "write_all", read_all |-> "read_all",
     disk_info |-> "disk_info"]

\* Stubs that answer as LocalDisk's do, with the MethodNotAllowed kind.
RemoteStubMethodNotAllowed(op) == Err(Unit("MethodNotAllowed"))

RemoteDisk_stub(op) == Err(not_implemented(RemoteStubs[op]))

\* ------------------------------------------------------ placement: DiskLocation
\* Endpoint.pool_idx, set_idx and disk_idx are signed integers (remote.rs
\* tests them with < 0 and its tests store -1 for an unset index); usize is
\* wider and unsigned.  Both widths are scaled down here, usize twice as
\* wide as an index.
IdxBits == 2
RECURSIVE Pow2(_)
Pow2(n) == IF n = 0 THEN 1 ELSE 2 * Pow2(n - 1)
IndexValues == (0 - Pow2(IdxBits - 1)) .. (Pow2(IdxBits - 1) - 1)
Endpoints == [pool_idx : IndexValues, set_idx : IndexValues, disk_idx : IndexValues]

\* `x as usize` of a signed x: sign extension, then the bits read unsigned.
as_usize(x) == x % Pow2(2 * IdxBits)

NoEndpoint == [pool_idx |-> 0, set_idx |-> 0, disk_idx |-> 0]
NoLocation == [pool_idx |-> None, set_idx |-> None, disk_idx |-> None]

\* DiskLocation::valid
DiskLocation_valid(l) == IsSome(l.pool_idx) /\ IsSome(l.set_idx) /\ IsSome(l.disk_idx)

\* LocalDisk::new: location: DiskLocation { pool_idx: Some(endpoint.pool_idx
\* as usize), .. }; get_disk_location clones it.
LocalDisk_get_disk_location(endpoint) ==
    [pool_idx |-> Some(as_usize(endpoint.pool_idx)),
     set_idx |-> Some(as_usize(endpoint.set_idx)),
     disk_idx |-> Some(as_usize(endpoint.disk_idx))]

\* A get_disk_location that casts without testing the sign.
RemoteLocationUnchecked(endpoint) == LocalDisk_get_disk_location(endpoint)

RemoteDisk_get_disk_location(endpoint) ==
    [pool_idx |-> IF endpoint.pool_idx < 0 THEN None
                  ELSE Some(as_usize(endpoint.pool_idx)),
     set_idx |-> IF endpoint.set_idx < 0 THEN None
                 ELSE Some(as_usize(endpoint.set_idx)),
     disk_idx |-> IF endpoint.disk_idx < 0 THEN None
                  ELSE Some(as_usize(endpoint.disk_idx))]

\* -------------------------------------------------- RemoteDisk: requests issued
\* A request as it leaves the client: an RPC message on the control channel
\* or an HTTP request on the streaming channel.  offset and length are the
\* decimal text the URL carries.
NoRequest ==
    [kind |-> "-", route |-> "-", method |-> "-", volume |-> "", path |-> <<>>,
     offset |-> <<>>, length |-> <<>>, headers |-> {}, body |-> ""]

\* format!("{}", n) of a usize: its decimal digits.
Digits == <<"0", "1", "2", "3", "4", "5", "6", "7", "8", "9">>
RECURSIVE Decimal(_)
Decimal(n) == IF n < 10 THEN <<Digits[n + 1]>>
              ELSE Decimal(n \div 10) \o <<Digits[(n % 10) + 1]>>

\* The number a server parses out of decimal text.
DigitValue(c) == CHOOSE d \in 0..9 : Digits[d + 1] = c
RECURSIVE ParseDecimal(_)
ParseDecimal(t) ==
    IF Len(t) = 0 THEN 0
    ELSE 10 * ParseDecimal(SubSeq(t, 1, Len(t) - 1)) + DigitValue(t[Len(t)])

\* A build_auth_headers that inserts nothing.
BuildNoAuthHeaders(headers) == headers

\* headers.insert("Authorization", "Bearer dummy-token"); HeaderMap keeps
\* names in lower case.
build_auth_headers(headers) == headers \cup {"authorization"}

\* tonic::Request::new(message): the message with empty metadata.
tonic_Request_new(rpc, volume) ==
    [NoRequest EXCEPT !.kind = "rpc", !.route = rpc, !.volume = volume]

\* The control-channel client that node_service_time_out_client yields sends
\* the request after its header-injection step.
client_send(request) ==
    [request EXCEPT !.headers = @ \cup {"authorization"}]

\* HttpReader::new / HttpWriter::new(url, method, headers, body) after
\* headers.insert(CONTENT_TYPE, ..) and build_auth_headers.
http_request(route, method, volume, path, offset, length, body) ==
    [kind |-> "http", route |-> route, method |-> method, volume |-> volume,
     path |-> path, offset |-> offset, length |-> length,
     headers |-> build_auth_headers({"content-type"}), body |-> body]

RemoteDisk_walk_dir_request ==
    http_request("walk_dir", "GET", "", <<>>, <<>>, <<>>, "WalkDirOptions")

\* read_file asks for offset 0 and length 0.
RemoteDisk_read_file_request(volume, path) ==
    http_request("read_file_stream", "GET", volume, path, Decimal(0), Decimal(0), "")

RemoteDisk_read_file_stream_request(volume, path, offset, length) ==
    http_request("read_file_stream", "GET", volume, path,
                 Decimal(offset), Decimal(length), "")

RemoteDisk_append_file_request(volume, path) ==
    http_request("put_file_stream", "PUT", volume, path, <<>>, Decimal(0), "")

\* ------------------------------------------------ the last call of this group
MaxOffset == 3
MaxVersions == 3
Offsets == (0..MaxOffset) \cup {10 * MaxOffset + 1}

NoOp ==
    [op |-> "-", disk |-> "-", ep |-> NoEndpoint, vols |-> <<>>, vol |-> "",
     path |-> <<>>, offset |-> 0, length |-> 0, n |-> 0,
     req |-> NoRequest, loc |-> NoLocation, res |-> Ok(<<>>), bytes |-> <<>>]

\* --------------------------------------- LocalDisk: ranged reads, make_volumes
\* The bytes a file holds: nothing after create_file, three bytes after
\* write_all.
FileBytes(d) == IF d = "" THEN <<>> ELSE <<"x", "y", "z">>

\* What the FileReader of File::open yields when read to its end: the file
\* from its first byte on.
read_to_end(f, p) == IF At(f, p).t = "file" THEN FileBytes(At(f, p).data) ELSE <<>>

\* "TODO: Implement stream reading with offset/length":
\* self.read_file(volume, path).await
LocalDisk_read_file_stream(f, m, fault, volume, path, offset, length) ==
    LocalDisk_read_file(f, m, fault, volume, path)

\* The bytes of s from offset on, length of them at most.
Range(s, offset, length) ==
    SubSeq(s, offset + 1, IF offset + length < Len(s) THEN offset + length ELSE Len(s))

MaxVolumes == 3
VolumeLists == UNION {[1..n -> Volumes] : n \in 0..MaxVolumes}

\* The creation the operating system refuses: the failAt-th, none if 0.
FaultAt(failAt, i) == IF i = failAt THEN Some("PermissionDenied") ELSE None

\* for volume in volumes { self.make_volume(volume).await?; } from the i-th on
RECURSIVE MakeVolumesFrom(_, _, _, _, _)
MakeVolumesFrom(f, m, failAt, volumes, i) ==
    IF i > Len(volumes) THEN Out(f, Ok(<<>>))
    ELSE LET o == LocalDisk_make_volume(f, m, FaultAt(failAt, i), volumes[i])
         IN  IF o.res.tag = "Err" THEN o
             ELSE MakeVolumesFrom(o.fs, m, failAt, volumes, i + 1)

\* The loop without the `?`: every volume is tried, the last Result returned.
RECURSIVE MakeVolumesTryingAll(_, _, _, _, _)
MakeVolumesTryingAll(f, m, failAt, volumes, i) ==
    IF i > Len(volumes) THEN Out(f, Ok(<<>>))
    ELSE LET o == LocalDisk_make_volume(f, m, FaultAt(failAt, i), volumes[i])
             rest == MakeVolumesTryingAll(o.fs, m, failAt, volumes, i + 1)
         IN  IF i = Len(volumes) THEN o ELSE rest

\* A make_volumes that goes on after a failure.
MakeVolumesNoStop(f, m, failAt, volumes) ==
    MakeVolumesTryingAll(f, m, failAt, volumes, 1)

LocalDisk_make_volumes(f, m, failAt, volumes) ==
    MakeVolumesFrom(f, m, failAt, volumes, 1)

\* ------------------------------------------------------------------- close
\* A close that forgets the cached identifier.
RemoteCloseClearingId(cached) == [id |-> None, res |-> Ok(<<>>)]

\* RemoteDisk::close: Ok(()); the cell is not touched.
RemoteDisk_close(cached) == [id |-> cached, res |-> Ok(<<>>)]

\* LocalDisk::close: Ok(()).
LocalDisk_close(f) == Out(f, Ok(<<>>))

\* delete_versions: the batch is not looked at.
LocalDisk_delete_versions(n) == LocalDisk_fixed("delete_versions")
RemoteDisk_delete_versions(n) == RemoteDisk_stub("delete_versions")

\* ------------------------------------------------------------------ hashers
\* A hasher: its kind, the bytes its digest state has absorbed, and the id a
\* Uuid hasher was made with.  HashType wraps one of the three or nothing.
HasherKinds == {"Sha256", "MD5", "Uuid",
                "HashType::Sha256", "HashType::Md5", "HashType::Uuid",
                "HashType::Undefined"}
Inner(kind) ==
    CASE kind \in {"Sha256", "HashType::Sha256"} -> "Sha256"
      [] kind \in {"MD5", "HashType::Md5"} -> "MD5"
      [] kind \in {"Uuid", "HashType::Uuid"} -> "Uuid"
      [] OTHER -> "Undefined"

HashBytes == {"b1", "b2"}
MaxWritten == 3
HasherId == "id1"

Hasher_new(kind) == [kind |-> kind, stream |-> <<>>, id |-> HasherId]

\* write: Update::update for Sha256 and MD5, nothing for Uuid and Undefined.
Hasher_write(h, bytes) ==
    IF Inner(h.kind) \in {"Sha256", "MD5"}
    THEN [h EXCEPT !.stream = @ \o bytes]
    ELSE h

\* reset: Reset::reset for Sha256; `fn reset(&mut self) {}` for MD5 and Uuid.
Hasher_reset(h) ==
    IF Inner(h.kind) = "Sha256" THEN [h EXCEPT !.stream = <<>>] ELSE h

\* The digest of a byte stream, one value for each stream of an algorithm.
Digest(alg, stream) == <<alg>> \o stream

\* sum: the hex digest of a clone of the state; the id for Uuid; "" for
\* Undefined.
Hasher_sum(h) ==
    CASE Inner(h.kind) = "Sha256" -> Digest("sha256", h.stream)
      [] Inner(h.kind) = "MD5" -> Digest("md5", h.stream)
      [] Inner(h.kind) = "Uuid" -> <<h.id>>
      [] OTHER -> <<>>

\* The hasher in use, the bytes written to it since its last reset (whether
\* there was one), the last operation, and what the last sum returned.
NoHasher ==
    [h |-> Hasher_new("HashType::Undefined"), since |-> <<>>, wasReset |-> FALSE,
     written |-> 0, op |-> "-", sum |-> <<>>, pre |-> Hasher_new("HashType::Undefined")]

CallIdle == call = NoOp /\ hs = NoHasher


\* ------------------------------------------------ actions: the error helpers
CallIsAllNotFound ==
    /\ out = NoCall
    /\ out' = Called("is_all_not_found", 0, 0, is_all_not_found(errs))
    /\ UNCHANGED <<errs, codes, ioerr, remoteVars, concVars, localVars, callVars>>

CallConvPartErrToInt ==
    \E i \in 1..Len(errs) :
        /\ out = NoCall
        /\ out' = Called("conv_part_err_to_int", i, 0, conv_part_err_to_int(errs[i]))
        /\ UNCHANGED <<errs, codes, ioerr, remoteVars, concVars, localVars, callVars>>

CallHasPartErr ==
    /\ out = NoCall
    /\ out' = Called("has_part_err", 0, 0, has_part_err(codes))
    /\ UNCHANGED <<errs, codes, ioerr, remoteVars, concVars, localVars, callVars>>

CallEq ==
    \E i, j \in 1..Len(errs) :
        /\ out = NoCall
        /\ IsSome(errs[i]) /\ IsSome(errs[j])
        /\ out' = Called("eq", i, j, DiskError_eq(Unwrap(errs[i]), Unwrap(errs[j])))
        /\ UNCHANGED <<errs, codes, ioerr, remoteVars, concVars, localVars, callVars>>

CallHash ==
    \E i \in 1..Len(errs), seed \in 0..MaxSeed :
        /\ out = NoCall
        /\ IsSome(errs[i])
        /\ out' = Called("hash", i, seed, DiskError_hash(Unwrap(errs[i]), seed))
        /\ UNCHANGED <<errs, codes, ioerr, remoteVars, concVars, localVars, callVars>>

\* is_err_object_not_found
ObjectNotFoundFileOnly(err) == err.kind = "FileNotFound"

is_err_object_not_found(err) ==
    err.kind = "FileNotFound" \/ err.kind = "VolumeNotFound"

\* is_err_version_not_found
is_err_version_not_found(err) == err.kind = "FileVersionNotFound"

\* The codes a caller reports for a list of per-disk outcomes.
part_codes(es) == [i \in 1..Len(es) |-> conv_part_err_to_int(es[i])]

CallIsErrObjectNotFound ==
    \E i \in 1..Len(errs) :
        /\ out = NoCall
        /\ IsSome(errs[i])
        /\ out' = Called("is_err_object_not_found", i, 0,
                         is_err_object_not_found(Unwrap(errs[i])))
        /\ UNCHANGED <<errs, codes, ioerr, remoteVars, concVars, localVars, callVars>>

CallIsErrVersionNotFound ==
    \E i \in 1..Len(errs) :
        /\ out = NoCall
        /\ IsSome(errs[i])
        /\ out' = Called("is_err_version_not_found", i, 0,
                         is_err_version_not_found(Unwrap(errs[i])))
        /\ UNCHANGED <<errs, codes, ioerr, remoteVars, concVars, localVars, callVars>>

\* has_part_err over the codes of the whole list.
CallHasPartErrOfErrs ==
    /\ out = NoCall
    /\ out' = Called("has_part_err(codes of errs)", 0, 0,
                     has_part_err(part_codes(errs)))
    /\ UNCHANGED <<errs, codes, ioerr, remoteVars, concVars, localVars, callVars>>

InitErrors ==
    /\ \/ errs \in ErrLists /\ codes = <<>>
       \/ errs = <<>> /\ codes \in CodeLists
    /\ ioerr = None
    /\ out = NoCall
    /\ RemoteIdle
    /\ ConcIdle
    /\ LocalIdle
    /\ CallIdle

NextErrors ==
    \/ CallIsAllNotFound
    \/ CallConvPartErrToInt
    \/ CallHasPartErr
    \/ CallEq
    \/ CallHash
    \/ CallIsErrObjectNotFound
    \/ CallIsErrVersionNotFound
    \/ CallHasPartErrOfErrs

SpecErrors == InitErrors /\ [][NextErrors]_vars

\* ------------------------------------------------- actions: the classifiers
IoErrors == {IoError(k, m) : k \in IoErrorKinds, m \in PayloadMsgs}

CallToFileError ==
    /\ out = NoCall
    /\ out' = Called("to_file_error", 0, 0, to_file_error(Unwrap(ioerr)))
    /\ UNCHANGED <<errs, codes, ioerr, remoteVars, concVars, localVars, callVars>>

CallToAccessError ==
    /\ out = NoCall
    /\ out' = Called("to_access_error", 0, 0, to_access_error(Unwrap(ioerr)))
    /\ UNCHANGED <<errs, codes, ioerr, remoteVars, concVars, localVars, callVars>>

CallToVolumeError ==
    /\ out = NoCall
    /\ out' = Called("to_volume_error", 0, 0, to_volume_error(Unwrap(ioerr)))
    /\ UNCHANGED <<errs, codes, ioerr, remoteVars, concVars, localVars, callVars>>

CallToUnformattedDiskError ==
    /\ out = NoCall
    /\ out' = Called("to_unformatted_disk_error", 0, 0,
                     to_unformatted_disk_error(Unwrap(ioerr)))
    /\ UNCHANGED <<errs, codes, ioerr, remoteVars, concVars, localVars, callVars>>

InitClassify ==
    /\ errs = <<>>
    /\ codes = <<>>
    /\ ioerr \in {Some(e) : e \in IoErrors}
    /\ out = NoCall
    /\ RemoteIdle
    /\ ConcIdle
    /\ LocalIdle
    /\ CallIdle

NextClassify ==
    \/ CallToFileError
    \/ CallToAccessError
    \/ CallToVolumeError
    \/ CallToUnformattedDiskError

SpecClassify == InitClassify /\ [][NextClassify]_vars

\* ------------------------------------------------------ actions: RemoteDisk
make_volume ==
    \E t \in Transports :
        /\ t.resp.names = <<>>
        /\ ret' = Returned("make_volume", t, id,
                           make_volume_result(t.connect, t.rpc, t.resp))
        /\ UNCHANGED <<id, lastSet, pureVars, concVars, localVars, callVars>>

make_volumes ==
    \E t \in Transports :
        /\ t.resp.names = <<>>
        /\ ret' = Returned("make_volumes", t, id,
                           make_volumes_result(t.connect, t.rpc, t.resp))
        /\ UNCHANGED <<id, lastSet, pureVars, concVars, localVars, callVars>>

list_volumes ==
    \E t \in Transports :
        /\ ret' = Returned("list_volumes", t, id,
                           list_volumes_result(t.connect, t.rpc, t.resp))
        /\ UNCHANGED <<id, lastSet, pureVars, concVars, localVars, callVars>>

stat_volume ==
    \E t \in Transports :
        /\ Len(t.resp.names) <= 1
        /\ ret' = Returned("stat_volume", t, id,
                           stat_volume_result(t.connect, t.rpc, t.resp))
        /\ UNCHANGED <<id, lastSet, pureVars, concVars, localVars, callVars>>

delete_volume ==
    \E t \in Transports :
        /\ t.resp.names = <<>>
        /\ ret' = Returned("delete_volume", t, id,
                           delete_volume_result(t.connect, t.rpc, t.resp))
        /\ UNCHANGED <<id, lastSet, pureVars, concVars, localVars, callVars>>

\* Ok(*self.id.lock().await)
get_disk_id_result(cached) == Ok(cached)

get_disk_id ==
    /\ ret' = Returned("get_disk_id", NoTransport, id, get_disk_id_result(id))
    /\ UNCHANGED <<id, lastSet, pureVars, concVars, localVars, callVars>>

\* A write that keeps the cached identifier when given None.
SetDiskIdKeepingOnNone(cached, new) == IF IsSome(new) THEN new ELSE cached

\* *lock = id
set_disk_id_cell(cached, new) == new

set_disk_id ==
    \E new \in OptUuids :
        /\ id' = set_disk_id_cell(id, new)
        /\ lastSet' = Some(new)
        /\ ret' = Returned("set_disk_id", NoTransport, id, Ok(<<>>))
        /\ UNCHANGED <<pureVars, concVars, localVars, callVars>>

\* One of the unwired operations is called: no transport call, no lock taken.
remote_stub ==
    \E op \in DOMAIN RemoteStubs :
        /\ ret' = Returned(op, NoTransport, id, RemoteDisk_stub(op))
        /\ UNCHANGED <<id, lastSet, pureVars, concVars, localVars, callVars>>

InitRemote == PureIdle /\ RemoteIdle /\ ConcIdle /\ LocalIdle /\ CallIdle

NextRemote ==
    \/ make_volume
    \/ make_volumes
    \/ list_volumes
    \/ stat_volume
    \/ delete_volume
    \/ get_disk_id
    \/ set_disk_id
    \/ remote_stub

SpecRemote == InitRemote /\ [][NextRemote]_vars

\* -------------------------- actions: get_disk_id / set_disk_id step by step
\* A task calls get_disk_id.  From here on the call may return any write that
\* is complete and not overwritten for certain, or any write in progress.
GetCall(t) ==
    /\ pc[t] = "idle"
    /\ pc' = [pc EXCEPT ![t] = "get_lock"]
    /\ adm' = [adm EXCEPT ![t] = {c.v : c \in cand}
                                   \cup {req[s] : s \in {x \in Tasks : pc[x] \in SetPcs}}]
    /\ UNCHANGED <<cell, lock, req, tmp, got, cand, snap, lin, pureVars, remoteVars, localVars, callVars>>

\* self.id.lock().await resolves: the task holds the guard.
GetAcquire(t) ==
    /\ pc[t] = "get_lock"
    /\ LockFree(t)
    /\ lock' = t
    /\ pc' = [pc EXCEPT ![t] = "get_read"]
    /\ UNCHANGED <<cell, req, tmp, got, cand, snap, adm, lin, pureVars, remoteVars, localVars, callVars>>

\* *guard: the Option<Uuid> is copied out of the cell.
GetRead(t) ==
    /\ pc[t] = "get_read"
    /\ tmp' = [tmp EXCEPT ![t] = cell]
    /\ pc' = [pc EXCEPT ![t] = "get_drop"]
    /\ UNCHANGED <<cell, lock, req, got, cand, snap, adm, lin, pureVars, remoteVars, localVars, callVars>>

\* The guard is dropped at the end of the statement and Ok(copy) returned.
GetReturn(t) ==
    /\ pc[t] = "get_drop"
    /\ lock' = IF lock = t THEN 0 ELSE lock
    /\ got' = Some(Decode(tmp[t]))
    /\ lin' = (lin /\ Decode(tmp[t]) \in adm[t])
    /\ tmp' = [tmp EXCEPT ![t] = Encode(None)]
    /\ adm' = [adm EXCEPT ![t] = {}]
    /\ pc' = [pc EXCEPT ![t] = "idle"]
    /\ UNCHANGED <<cell, req, cand, snap, pureVars, remoteVars, localVars, callVars>>

\* A task calls set_disk_id(new).  Every get in progress may return new.
SetCall(t) ==
    \E new \in SetArgs :
        /\ pc[t] = "idle"
        /\ pc' = [pc EXCEPT ![t] = "set_lock"]
        /\ req' = [req EXCEPT ![t] = new]
        /\ snap' = [snap EXCEPT ![t] = {c.w : c \in cand}]
        /\ adm' = [g \in Tasks |->
                     IF pc[g] \in GetPcs THEN adm[g] \cup {new} ELSE adm[g]]
        /\ UNCHANGED <<cell, lock, tmp, got, cand, lin, pureVars, remoteVars, localVars, callVars>>

\* let mut lock = self.id.lock().await
SetAcquire(t) ==
    /\ pc[t] = "set_lock"
    /\ LockFree(t)
    /\ lock' = t
    /\ pc' = [pc EXCEPT ![t] = "set_word1"]
    /\ UNCHANGED <<cell, req, tmp, got, cand, snap, adm, lin, pureVars, remoteVars, localVars, callVars>>

\* *lock = id, first word
SetStore1(t) ==
    /\ pc[t] = "set_word1"
    /\ cell' = <<Encode(req[t])[1], cell[2]>>
    /\ pc' = [pc EXCEPT ![t] = "set_word2"]
    /\ UNCHANGED <<lock, req, tmp, got, cand, snap, adm, lin, pureVars, remoteVars, localVars, callVars>>

\* *lock = id, second word
SetStore2(t) ==
    /\ pc[t] = "set_word2"
    /\ cell' = <<cell[1], Encode(req[t])[2]>>
    /\ pc' = [pc EXCEPT ![t] = "set_drop"]
    /\ UNCHANGED <<lock, req, tmp, got, cand, snap, adm, lin, pureVars, remoteVars, localVars, callVars>>

\* The guard is dropped and Ok(()) returned.  The write is complete: it
\* overwrites for certain the writes that were complete when it was called.
SetReturn(t) ==
    /\ pc[t] = "set_drop"
    /\ lock' = IF lock = t THEN 0 ELSE lock
    /\ pc' = [pc EXCEPT ![t] = "idle"]
    /\ cand' = {c \in cand : c.w \notin snap[t] /\ c.w # t}
                  \cup {[w |-> t, v |-> req[t]]}
    /\ snap' = [s \in Tasks |-> IF s = t THEN {} ELSE snap[s] \ {t}]
    /\ req' = [req EXCEPT ![t] = None]
    /\ UNCHANGED <<cell, tmp, got, adm, lin, pureVars, remoteVars, localVars, callVars>>

\* The steps the executor and the mutex make for a task once it has called.
Progress(t) ==
    \/ GetAcquire(t)
    \/ GetRead(t)
    \/ GetReturn(t)
    \/ SetAcquire(t)
    \/ SetStore1(t)
    \/ SetStore2(t)
    \/ SetReturn(t)

InitConc == PureIdle /\ RemoteIdle /\ ConcIdle /\ LocalIdle /\ CallIdle

NextConc ==
    \E t \in Tasks :
        \/ GetCall(t)
        \/ SetCall(t)
        \/ Progress(t)

\* A task that has called is polled again whenever it can make a step; the
\* mutex itself promises no order among the tasks waiting for it.
SpecConc ==
    /\ InitConc
    /\ [][NextConc]_vars
    /\ \A t \in Tasks : WF_vars(Progress(t))

\* ------------------------------------------------------- actions: LocalDisk
LocalMakeVolume ==
    \E v \in Volumes :
        LET o == LocalDisk_make_volume(fs, mounts, None, v)
        IN  /\ fs' = o.fs
            /\ lret' = LocalCall("make_volume", v, <<>>, "-", <<>>, None,
                              fs, o.res)
            /\ UNCHANGED <<mounts, rn, seen, pureVars, remoteVars, concVars, callVars>>

LocalStatVolume ==
    \E v \in Volumes :
        LET o == LocalDisk_stat_volume(fs, mounts, None, v)
        IN  /\ fs' = o.fs
            /\ lret' = LocalCall("stat_volume", v, <<>>, "-", <<>>, None,
                              fs, o.res)
            /\ UNCHANGED <<mounts, rn, seen, pureVars, remoteVars, concVars, callVars>>

LocalDeleteVolume ==
    \E v \in Volumes :
        LET o == LocalDisk_delete_volume(fs, mounts, None, v)
        IN  /\ fs' = o.fs
            /\ lret' = LocalCall("delete_volume", v, <<>>, "-", <<>>, None,
                              fs, o.res)
            /\ UNCHANGED <<mounts, rn, seen, pureVars, remoteVars, concVars, callVars>>

LocalListDir ==
    \E v \in Volumes, p \in DirPaths, fault \in Faults :
        LET o == LocalDisk_list_dir(fs, mounts, fault, v, p)
        IN  /\ fs' = o.fs
            /\ lret' = LocalCall("list_dir", v, p, "-", <<>>, fault,
                              fs, o.res)
            /\ UNCHANGED <<mounts, rn, seen, pureVars, remoteVars, concVars, callVars>>

LocalReadFile ==
    \E v \in Volumes, p \in RelPaths, fault \in Faults :
        LET o == LocalDisk_read_file(fs, mounts, fault, v, p)
        IN  /\ fs' = o.fs
            /\ lret' = LocalCall("read_file", v, p, "-", <<>>, fault,
                              fs, o.res)
            /\ UNCHANGED <<mounts, rn, seen, pureVars, remoteVars, concVars, callVars>>

LocalAppendFile ==
    \E v \in Volumes, p \in RelPaths, fault \in Faults :
        LET o == LocalDisk_append_file(fs, mounts, fault, v, p)
        IN  /\ fs' = o.fs
            /\ lret' = LocalCall("append_file", v, p, "-", <<>>, fault,
                              fs, o.res)
            /\ UNCHANGED <<mounts, rn, seen, pureVars, remoteVars, concVars, callVars>>

LocalDelete ==
    \E v \in Volumes, p \in RelPaths, fault \in Faults :
        LET o == LocalDisk_delete(fs, mounts, fault, v, p)
        IN  /\ fs' = o.fs
            /\ lret' = LocalCall("delete", v, p, "-", <<>>, fault,
                              fs, o.res)
            /\ UNCHANGED <<mounts, rn, seen, pureVars, remoteVars, concVars, callVars>>

LocalReadAll ==
    \E v \in Volumes, p \in RelPaths, fault \in Faults :
        LET o == LocalDisk_read_all(fs, mounts, fault, v, p)
        IN  /\ fs' = o.fs
            /\ lret' = LocalCall("read_all", v, p, "-", <<>>, fault,
                              fs, o.res)
            /\ UNCHANGED <<mounts, rn, seen, pureVars, remoteVars, concVars, callVars>>

LocalCreateFile ==
    \E v \in Volumes, p \in RelPaths :
        LET o == LocalDisk_create_file(fs, mounts, None, v, p)
        IN  /\ fs' = o.fs
            /\ lret' = LocalCall("create_file", v, p, "-", <<>>, None,
                              fs, o.res)
            /\ UNCHANGED <<mounts, rn, seen, pureVars, remoteVars, concVars, callVars>>

LocalWriteAll ==
    \E v \in Volumes, p \in RelPaths, d \in Datas :
        LET o == LocalDisk_write_all(fs, mounts, None, v, p, d)
        IN  /\ fs' = o.fs
            /\ lret' = LocalCall("write_all", v, p, "-", <<>>, None,
                              fs, o.res)
            /\ UNCHANGED <<mounts, rn, seen, pureVars, remoteVars, concVars, callVars>>

\* The renames drawn are of regular files and of missing paths.
LocalRenameFile ==
    \E sv \in Volumes, sp \in RelPaths, dv \in Volumes, dp \in RelPaths :
        LET o == LocalDisk_rename_file(fs, mounts, None, sv, sp, dv, dp)
        IN  /\ At(fs, Join(sv, sp)).t # "dir"
            /\ fs' = o.fs
            /\ lret' = LocalCall("rename_file", sv, sp, dv, dp, None,
                              fs, o.res)
            /\ UNCHANGED <<mounts, rn, seen, pureVars, remoteVars, concVars, callVars>>

LocalRenamePart ==
    \E sv \in Volumes, sp \in RelPaths, dv \in Volumes, dp \in RelPaths :
        LET o == LocalDisk_rename_part(fs, mounts, None, sv, sp, dv, dp)
        IN  /\ At(fs, Join(sv, sp)).t # "dir"
            /\ fs' = o.fs
            /\ lret' = LocalCall("rename_part", sv, sp, dv, dp, None,
                              fs, o.res)
            /\ UNCHANGED <<mounts, rn, seen, pureVars, remoteVars, concVars, callVars>>

\* One of the operations that answer without touching the disk is called.
LocalFixed ==
    \E op \in MethodNotAllowedOps \cup PlaceholderOps :
        /\ lret' = LocalCall(op, "-", <<>>, "-", <<>>, None, fs, LocalDisk_fixed(op))
        /\ UNCHANGED <<fs, mounts, rn, seen, pureVars, remoteVars, concVars, callVars>>

LocalGetDiskId ==
    /\ lret' = LocalCall("get_disk_id", "-", <<>>, "-", <<>>, None, fs,
                         LocalDisk_get_disk_id)
    /\ UNCHANGED <<fs, mounts, rn, seen, pureVars, remoteVars, concVars, callVars>>

LocalSetDiskId ==
    \E new \in OptUuids :
        LET o == LocalDisk_set_disk_id(fs, new)
        IN  /\ fs' = o.fs
            /\ lret' = [LocalCall("set_disk_id", "-", <<>>, "-", <<>>, None, fs, o.res)
                           EXCEPT !.id = new]
            /\ UNCHANGED <<mounts, rn, seen, pureVars, remoteVars, concVars, callVars>>

\* The process restarts: LocalDisk::new over the same root directory.
LocalRestart ==
    LET o == map_err_Io(create_dir_all(fs, <<>>))
    IN  /\ fs' = o.fs
        /\ lret' = LocalCall("new", "-", <<>>, "-", <<>>, None, fs, o.res)
        /\ UNCHANGED <<mounts, rn, seen, pureVars, remoteVars, concVars, callVars>>

InitLocal ==
    /\ PureIdle
    /\ RemoteIdle
    /\ ConcIdle
    /\ CallIdle
    /\ \E m \in MountChoices : LocalNew(m)

NextLocal ==
    \/ LocalMakeVolume
    \/ LocalStatVolume
    \/ LocalDeleteVolume
    \/ LocalListDir
    \/ LocalReadFile
    \/ LocalAppendFile
    \/ LocalDelete
    \/ LocalReadAll
    \/ LocalCreateFile
    \/ LocalWriteAll
    \/ LocalRenameFile
    \/ LocalRenamePart
    \/ LocalFixed
    \/ LocalGetDiskId
    \/ LocalSetDiskId
    \/ LocalRestart

SpecLocal == InitLocal /\ [][NextLocal]_vars

\* ------------------------- actions: rename_file under a concurrent observer
\* The disks a rename is started on: a new LocalDisk on which up to one file
\* was written with write_all and up to one created with create_file.
Written(f, v, p, d) == LocalDisk_write_all(f, {}, None, v, p, d).fs
Created(f, v, p) == LocalDisk_create_file(f, {}, None, v, p).fs
OneFileDisks == {Written(NewFs({}), v, p, d) : v \in Volumes, p \in RelPaths, d \in Datas}
RenameDisks ==
    OneFileDisks \cup {Created(f, v, p) : f \in OneFileDisks, v \in Volumes, p \in RelPaths}

\* fs::lstat: what a stat of the path finds, nothing if it fails.
lstat(f, p) == IF exists(f, p) THEN f[p] ELSE Absent

\* A task calls rename_file to move a file within one volume.
RenameCall ==
    \E v \in Volumes, sp \in RelPaths, dp \in RelPaths :
        /\ rn.pc \in {"idle", "returned"}
        /\ sp # dp
        /\ fs[Join(v, sp)].t = "file"
        /\ rn' = [pc |-> "called", from |-> Join(v, sp), to |-> Join(v, dp),
                  file |-> fs[Join(v, sp)], over |-> fs[Join(v, dp)],
                  res |-> Ok(<<>>)]
        /\ seen' = NoSeen
        /\ UNCHANGED <<fs, mounts, lret, pureVars, remoteVars, concVars, callVars>>

\* tokio::fs::rename runs: the one system call of the operation.
RenameSyscall ==
    /\ rn.pc = "called"
    /\ LET o == LocalDisk_rename_file(fs, mounts, None, rn.from[1], Tail(rn.from),
                                      rn.to[1], Tail(rn.to))
       IN  /\ fs' = o.fs
           /\ rn' = [rn EXCEPT !.pc = "done", !.res = o.res]
    /\ UNCHANGED <<seen, mounts, lret, pureVars, remoteVars, concVars, callVars>>

\* The future resolves: rename_file has returned to its caller.
RenameReturn ==
    /\ rn.pc = "done"
    /\ rn' = [rn EXCEPT !.pc = "returned"]
    /\ UNCHANGED <<fs, seen, mounts, lret, pureVars, remoteVars, concVars, callVars>>

\* Another task stats the source or the destination, at any moment of the
\* rename.
ObserverStat ==
    \E p \in {rn.from, rn.to} :
        /\ rn.pc # "idle"
        /\ seen' = [path |-> p, found |-> lstat(fs, p)]
        /\ UNCHANGED <<fs, rn, mounts, lret, pureVars, remoteVars, concVars, callVars>>

InitRename ==
    /\ PureIdle
    /\ RemoteIdle
    /\ ConcIdle
    /\ fs \in RenameDisks
    /\ mounts = {}
    /\ lret = LocalCall("new", "-", <<>>, "-", <<>>, None, NewFs({}), Ok(<<>>))
    /\ rn = NoRename
    /\ seen = NoSeen
    /\ CallIdle

NextRename ==
    \/ RenameCall
    \/ RenameSyscall
    \/ RenameReturn
    \/ ObserverStat

SpecRename == InitRename /\ [][NextRename]_vars

\* ------------------------------------------------------------------ claims
NotFoundKinds == {"FileNotFound", "FileVersionNotFound"}

\* C1: is_all_not_found(errs) is true iff errs is non-empty and every entry is
\* present and is FileNotFound or FileVersionNotFound; the empty list, a list
\* with an absent entry and a list with any other kind all give false.
C1_AllNotFound ==
    out.fn = "is_all_not_found" =>
        (out.val[1] <=>
            /\ Len(errs) > 0
            /\ \A i \in 1..Len(errs) :
                 IsSome(errs[i]) /\ Unwrap(errs[i]).kind \in NotFoundKinds)

\* C1 witness: the call answered false for a list whose only flaw is a success
\* entry after two not-found entries.
C1_Witness ==
    /\ out.fn = "is_all_not_found"
    /\ out.val = <<FALSE>>
    /\ errs = <<Some(Unit("FileNotFound")), Some(Unit("FileVersionNotFound")), None>>

\* C2: conv_part_err_to_int is total: None gives 1, DiskNotFound 2,
\* VolumeNotFound 3, FileNotFound 4, FileCorrupt 5, every other kind 0.
C2_Expected(e) ==
    IF e = None THEN 1
    ELSE IF Unwrap(e).kind = "DiskNotFound" THEN 2
    ELSE IF Unwrap(e).kind = "VolumeNotFound" THEN 3
    ELSE IF Unwrap(e).kind = "FileNotFound" THEN 4
    ELSE IF Unwrap(e).kind = "FileCorrupt" THEN 5
    ELSE 0

C2_PartCodes ==
    out.fn = "conv_part_err_to_int" => out.val[1] = C2_Expected(errs[out.i])

\* C2 witness: FileVersionNotFound was converted and collapsed to unknown.
C2_Witness ==
    /\ out.fn = "conv_part_err_to_int"
    /\ errs[out.i] = Some(Unit("FileVersionNotFound"))
    /\ out.val = <<0>>

\* C3: has_part_err(codes) is true iff some entry differs from the success
\* code 1; false for a list of 1s and for the empty list.
C3_HasPartErr ==
    out.fn = "has_part_err" =>
        (out.val[1] = FALSE <=> codes \in UNION {[1..n -> {1}] : n \in 0..Len(codes)})

\* C3 witness: the only non-success entry is the unknown code 0.
C3_Witness ==
    /\ out.fn = "has_part_err"
    /\ codes = <<1, 0, 1>>
    /\ out.val = <<TRUE>>

\* C7: two DiskError values are equal iff they are of the same kind, whatever
\* message, operation name or cause they carry, and equal values hash
\* identically from the same hasher state.
C7_KindEquality ==
    /\ out.fn = "eq" =>
         (out.val[1] <=> Unwrap(errs[out.i]).kind = Unwrap(errs[out.j]).kind)
    /\ out.fn = "hash" =>
         \A k \in 1..Len(errs) :
             (IsSome(errs[k]) /\ Unwrap(errs[k]).kind = Unwrap(errs[out.i]).kind)
                 => DiskError_hash(Unwrap(errs[k]), out.j) = out.val[1]

\* C7 witness: two Io errors with different messages compared equal.
C7_Witness ==
    /\ out.fn = "eq"
    /\ out.val = <<TRUE>>
    /\ Unwrap(errs[out.i]).kind = "Io"
    /\ Unwrap(errs[out.i]).aux # Unwrap(errs[out.j]).aux

\* The kind of the low-level failure that was classified.
InKind == IoKind(Unwrap(ioerr))
Classifiers ==
    {"to_file_error", "to_access_error", "to_volume_error", "to_unformatted_disk_error"}

\* C4: the same low-level not-found failure is classified by context:
\* to_file_error gives FileNotFound, to_volume_error VolumeNotFound and
\* to_unformatted_disk_error UnformattedDisk.
C4_NotFoundByContext ==
    (out.fn \in Classifiers /\ InKind = "NotFound") =>
        /\ out.fn = "to_file_error" => out.val[1] = Unit("FileNotFound")
        /\ out.fn = "to_volume_error" => out.val[1] = Unit("VolumeNotFound")
        /\ out.fn = "to_unformatted_disk_error" => out.val[1] = Unit("UnformattedDisk")

\* C4 witness: a not-found failure went through the volume classifier.
C4_Witness ==
    /\ out.fn = "to_volume_error"
    /\ InKind = "NotFound"
    /\ out.val = <<Unit("VolumeNotFound")>>

\* C5: permission-denied becomes FileAccessDenied in to_file_error,
\* VolumeAccessDenied in to_volume_error and DiskAccessDenied in
\* to_access_error; already-exists becomes VolumeExists in to_volume_error.
C5_DeniedAndExists ==
    /\ (out.fn \in Classifiers /\ InKind = "PermissionDenied") =>
         /\ out.fn = "to_file_error" => out.val[1] = Unit("FileAccessDenied")
         /\ out.fn = "to_volume_error" => out.val[1] = Unit("VolumeAccessDenied")
         /\ out.fn = "to_access_error" => out.val[1] = Unit("DiskAccessDenied")
    /\ (out.fn = "to_volume_error" /\ InKind = "AlreadyExists") =>
         out.val[1] = Unit("VolumeExists")

\* C5 witness: a permission-denied failure went through the access classifier.
C5_Witness ==
    /\ out.fn = "to_access_error"
    /\ InKind = "PermissionDenied"
    /\ out.val = <<Unit("DiskAccessDenied")>>

\* C6 as stated: in every classifier a failure whose kind is none of not-found,
\* permission-denied or already-exists passes through as Io carrying the
\* original error.
C6_OtherKindsPassThrough ==
    (out.fn \in Classifiers
       /\ InKind \notin {"NotFound", "PermissionDenied", "AlreadyExists"})
        => out.val[1] = Io(Unwrap(ioerr))

\* C6 amended: the same, except that to_file_error classifies an invalid-input
\* failure as FileNameTooLong instead of passing it through.
C6_PassThroughButInvalidInput ==
    /\ (out.fn \in Classifiers
          /\ InKind \notin {"NotFound", "PermissionDenied", "AlreadyExists"}
          /\ ~(out.fn = "to_file_error" /\ InKind = "InvalidInput"))
         => out.val[1] = Io(Unwrap(ioerr))
    /\ (out.fn = "to_file_error" /\ InKind = "InvalidInput")
         => out.val[1] = Unit("FileNameTooLong")

\* C6 witness: a timed-out failure with a message passed through the
\* identity-read classifier as Io with that same error inside.
C6_Witness ==
    /\ out.fn = "to_unformatted_disk_error"
    /\ ioerr = Some(IoError("TimedOut", <<"a">>))
    /\ out.val = <<Io(IoError("TimedOut", <<"a">>))>>

ControlOps == {"make_volume", "make_volumes", "list_volumes", "stat_volume", "delete_volume"}
TransportFailed == IsSome(ret.inp.connect) \/ IsSome(ret.inp.rpc)

\* C8 as stated: for each control call, a transport failure gives an Io error;
\* a response with success=false gives a Custom error whose message contains
\* the response's error text; Ok is returned only when the transport succeeds
\* and success is true.
C8_ControlCallOutcomes ==
    ret.op \in ControlOps =>
        /\ TransportFailed => (ret.res.tag = "Err" /\ ret.res.err.kind = "Io")
        /\ (~TransportFailed /\ ~ret.inp.resp.success) =>
             /\ ret.res.tag = "Err"
             /\ ret.res.err.kind = "Custom"
             /\ IsSome(ret.inp.resp.error) =>
                  Contains(ret.res.err.aux, Unwrap(ret.inp.resp.error))
        /\ ret.res.tag = "Ok" <=> (~TransportFailed /\ ret.inp.resp.success)

\* C8 amended: the same, the Custom message containing the Debug rendering of
\* the response's error field, which holds the error text verbatim when the
\* text has no character that Debug escapes.
C8_ControlCallDebugText ==
    ret.op \in ControlOps =>
        /\ TransportFailed => (ret.res.tag = "Err" /\ ret.res.err.kind = "Io")
        /\ (~TransportFailed /\ ~ret.inp.resp.success) =>
             /\ ret.res.tag = "Err"
             /\ ret.res.err.kind = "Custom"
             /\ Contains(ret.res.err.aux, DebugOptString(ret.inp.resp.error))
             /\ (/\ IsSome(ret.inp.resp.error)
                 /\ \A n \in 1..Len(Unwrap(ret.inp.resp.error)) :
                      Unwrap(ret.inp.resp.error)[n] \notin {"\"", "\\", "\n"})
                  => Contains(ret.res.err.aux, Unwrap(ret.inp.resp.error))
        /\ ret.res.tag = "Ok" <=> (~TransportFailed /\ ret.inp.resp.success)

\* C8 witness: stat_volume met a response with success=false and the text
\* "aa" and returned a Custom error with that text in its message.
C8_Witness ==
    /\ ret.op = "stat_volume"
    /\ ~TransportFailed
    /\ ~ret.inp.resp.success
    /\ ret.inp.resp.error = Some(<<"a", "a">>)
    /\ ret.res.err.kind = "Custom"
    /\ Contains(ret.res.err.aux, <<"a", "a">>)

\* C9: get_disk_id returns None until the first set_disk_id and afterwards the
\* argument of the most recent set_disk_id (None clears it); get_disk_id
\* leaves the stored identifier as it was.
C9_LastSetWins ==
    ret.op = "get_disk_id" =>
        /\ ret.res = Ok(IF IsSome(lastSet) THEN Unwrap(lastSet) ELSE None)
        /\ id = ret.pre

\* C9 witness: an identifier was set, then cleared with None, and a
\* get_disk_id after that returned None.
C9_Witness ==
    /\ ret.op = "get_disk_id"
    /\ lastSet = Some(None)
    /\ ret.res = Ok(None)

\* Every get_disk_id so far returned a whole value stored by a write that was
\* complete and not overwritten for certain when the get was called, or by a
\* write that overlapped the get.
Linearizable == lin

\* C10 as stated: every get_disk_id returns the initial None or a value passed
\* whole to some set_disk_id, a get that starts after a set has returned
\* observes that value or a later one, and every call eventually completes.
C10_LinearizableAndLive ==
    /\ []Linearizable
    /\ \A t \in Tasks : (pc[t] # "idle") ~> (pc[t] = "idle")

\* C10 amended: the same safety; a call that holds the guard completes, and
\* while calls wait for the guard some call gets it.  One waiting call may be
\* overtaken by others for ever.
C10_LinearizableAndLockFree ==
    /\ []Linearizable
    /\ \A t \in Tasks : (lock = t) ~> (pc[t] = "idle")
    /\ (\E t \in Tasks : pc[t] \in {"get_lock", "set_lock"})
          ~> (\E t \in Tasks : lock = t)

\* C10 witness: a get_disk_id of one task has returned the identifier that a
\* set_disk_id of another task stored, while a third call waits for the guard.
C10_Witness ==
    \E g, w \in Tasks :
        /\ g # w
        /\ IsSome(got)
        /\ IsSome(Unwrap(got))
        /\ [w |-> w, v |-> Unwrap(got)] \in cand
        /\ pc[w] = "get_lock"
        /\ pc[g] \in SetPcs

\* The operations C11 lists.
UnwiredOps ==
    {"delete_version", "delete_versions", "delete_paths", "write_metadata",
     "update_metadata", "read_version", "read_xl", "rename_data", "list_dir",
     "create_file", "rename_file", "rename_part", "delete", "verify_file",
     "check_parts", "read_multiple", "write_all", "read_all", "disk_info"}

\* C11: every RemoteDisk operation that is not wired to a transport call (the
\* nineteen listed) fails with NotImplemented whose operation field is the
\* operation's own name, and leaves the cached identifier as it was.
C11_UnwiredNotImplemented ==
    /\ DOMAIN RemoteStubs = UnwiredOps
    /\ ret.op \in UnwiredOps =>
         /\ ret.res = Err(not_implemented(ret.op))
         /\ ret.res.err.kind = "NotImplemented"
         /\ ret.res.err.aux = <<ret.op>>
         /\ id = ret.pre

C11_Witness ==
    /\ ret.op = "rename_part"
    /\ ret.res.err.aux = <<"rename_part">>
    /\ IsSome(id)
    /\ id = ret.pre

\* The operations C12 lists.
LocalUnimplementedOps ==
    {"walk_dir", "delete_version", "delete_versions", "delete_paths",
     "write_metadata", "update_metadata", "read_version", "read_xl",
     "rename_data", "verify_file", "check_parts", "read_multiple"}

\* C12: every LocalDisk operation that is not implemented (the twelve listed)
\* fails with the NotImplemented kind carrying the operation's name, and
\* never returns success with a placeholder value.
C12_LocalNotImplemented ==
    lret.op \in LocalUnimplementedOps =>
        /\ lret.res.tag = "Err"
        /\ lret.res.err.kind = "NotImplemented"
        /\ lret.res.err.aux = <<lret.op>>

\* The file operations C13 lists.
FileOps == {"read_file", "read_all", "append_file", "delete", "list_dir"}

\* C13: a LocalDisk file operation on a path that does not exist fails with
\* FileNotFound, one the operating system refuses with FileAccessDenied, and
\* no failure comes back as the generic Io kind when to_file_error has a
\* specific kind for it.
C13_FileOpsClassified ==
    lret.op \in FileOps =>
        /\ (lret.fault = None /\ lret.wasAt = "none") =>
               /\ lret.res.tag = "Err"
               /\ DiskError_eq(lret.res.err, Unit("FileNotFound"))
        /\ IsSome(lret.fault) =>
               /\ lret.res.tag = "Err"
               /\ DiskError_eq(lret.res.err, Unit("FileAccessDenied"))
        /\ (lret.res.tag = "Err" /\ lret.res.err.kind = "Io") =>
               to_file_error(lret.res.err.aux).kind = "Io"

\* C14: delete_volume(v) on a volume that does not exist fails with
\* VolumeNotFound and changes nothing on the disk.
C14_DeleteMissingVolume ==
    [][(lret'.op = "delete_volume" /\ fs[<<lret'.vol>>].t = "none") =>
          /\ lret'.res.tag = "Err"
          /\ DiskError_eq(lret'.res.err, Unit("VolumeNotFound"))
          /\ fs' = fs]_vars

\* C15: a call of stat_volume(v) returns Ok with name v if the directory of v
\* is on the disk and Err(VolumeNotFound) if it is not, and reads only; the
\* directory of v is on the disk exactly if v was created and not since
\* deleted: a make_volume(v) that returns Ok leaves it there, a delete_volume(v)
\* that returns Ok leaves neither it nor anything under it, and neither call
\* changes whether another volume is there, nor, when it fails, whether v is.
C15_Step ==
    LET v == lret'.vol
        ok == lret'.res.tag = "Ok"
    IN  /\ lret'.op = "stat_volume" =>
              /\ lret'.res = IF fs[<<v>>].t = "dir" THEN Ok(<<v>>)
                             ELSE Err(Unit("VolumeNotFound"))
              /\ fs' = fs
        /\ (lret'.op = "make_volume" /\ ok) => fs'[<<v>>].t = "dir"
        /\ (lret'.op = "delete_volume" /\ ok) =>
              \A q \in {<<v>>} \cup Under(<<v>>) : fs'[q] = Absent
        /\ lret'.op \in {"make_volume", "delete_volume"} =>
              /\ ~ok => fs'[<<v>>] = fs[<<v>>]
              /\ \A w \in Volumes \ {v} :
                    \A q \in {<<w>>} \cup Under(<<w>>) : fs'[q] = fs[q]

C15_VolumeLifecycle == [][C15_Step]_vars

\* stat_volume finds a volume that make_volume created and that holds a file,
\* while the other volume is not there.
C15_Witness ==
    /\ lret.op = "stat_volume"
    /\ lret.res = Ok(<<lret.vol>>)
    /\ fs[Join(lret.vol, <<"d", "a">>)].t = "file"
    /\ \E w \in Volumes : fs[<<w>>].t = "none"

\* C16: make_volume(v) on a volume that is already there as a directory
\* returns Ok and leaves the whole disk as it was; a second make_volume(v)
\* right after a first returns what the first returned and changes nothing.
C16_Step ==
    /\ (lret'.op = "make_volume" /\ fs[<<lret'.vol>>].t = "dir") =>
          /\ lret'.res = Ok(<<>>)
          /\ fs' = fs
    /\ (lret.op = "make_volume" /\ lret'.op = "make_volume"
          /\ lret'.vol = lret.vol) =>
          /\ lret'.res = lret.res
          /\ fs' = fs

C16_MakeVolumeIdempotent == [][C16_Step]_vars

\* make_volume returned Ok on a volume that was there and holds a file.
C16_Witness ==
    /\ lret.op = "make_volume"
    /\ lret.wasAt = "dir"
    /\ lret.res = Ok(<<>>)
    /\ fs[Join(lret.vol, <<"a">>)].t = "file"
    /\ lret.vol \notin mounts

\* C17: create_file and write_all at a path none of whose missing parent
\* directories is there (each is absent or a directory, the nearest absent)
\* succeed, and afterwards every parent directory of the path is a directory
\* under the root and the path holds the file.
C17_Step ==
    LET p == Target(lret'.vol, lret'.path)
    IN  (/\ lret'.op \in {"create_file", "write_all"}
         /\ fs[Parent(p)].t = "none"
         /\ \A q \in Ancestors(p) : At(fs, q).t \in {"none", "dir"}) =>
            /\ lret'.res.tag = "Ok"
            /\ \A q \in Ancestors(p) : At(fs', q).t = "dir"
            /\ fs'[p].t = "file"

C17_ParentsCreated == [][C17_Step]_vars

\* write_all returned Ok at v/d/a when the directory v/d was not there.
C17_Witness ==
    /\ lret.op = "write_all"
    /\ lret.path = <<"d", "a">>
    /\ lret.wasParent = "none"
    /\ lret.res = Ok(<<>>)
    /\ fs[Join(lret.vol, <<"d">>)].t = "dir"
    /\ fs[Join(lret.vol, <<"d", "a">>)] = File("d1")
    /\ fs[Join(lret.vol, <<"a">>)].t = "none"

\* C18: from the call of a rename_file that moves a file within one volume
\* on, the file (told by its bytes from what the destination held before) is
\* at exactly one of the source and the destination path in every state, each
\* of the two paths holds a whole file or nothing, a concurrent stat finds
\* nothing else, and once the call has returned Ok the file is at the
\* destination and the source is gone.
C18_RenameAtomic ==
    (rn.pc # "idle" /\ rn.over # rn.file) =>
        /\ (fs[rn.from] = rn.file) # (fs[rn.to] = rn.file)
        /\ fs[rn.from] \in {rn.file, Absent}
        /\ fs[rn.to] \in {rn.file, rn.over}
        /\ seen.path = rn.from => seen.found \in {rn.file, Absent}
        /\ seen.path = rn.to => seen.found \in {rn.file, rn.over}
        /\ (rn.pc = "returned" /\ rn.res.tag = "Ok") =>
              /\ fs[rn.to] = rn.file
              /\ fs[rn.from] = Absent

\* The system call has moved the file over another file and the call has not
\* returned yet; a stat of the destination found the whole file.
C18_Witness ==
    /\ rn.pc = "done"
    /\ rn.res.tag = "Ok"
    /\ rn.over.t = "file"
    /\ rn.over # rn.file
    /\ seen.path = rn.to
    /\ seen.found = rn.file
    /\ fs[rn.from] = Absent

\* C19: rename_file and rename_part of a file to a volume on another
\* filesystem (the destination directory being there) fail with the
\* CrossDeviceLink kind, leave the source file in place and create nothing at
\* the destination: the disk is as it was.
C19_CrossDeviceLink ==
    [][(/\ lret'.op \in {"rename_file", "rename_part"}
        /\ At(fs, Join(lret'.vol, lret'.path)).t = "file"
        /\ Device(mounts, Join(lret'.vol, lret'.path))
              # Device(mounts, Join(lret'.dvol, lret'.dpath))
        /\ At(fs, Parent(Join(lret'.dvol, lret'.dpath))).t = "dir") =>
           /\ lret'.res.tag = "Err"
           /\ DiskError_eq(lret'.res.err, Unit("CrossDeviceLink"))
           /\ fs' = fs]_vars

\* C20: get_disk_id returns Ok, never an error, and a get_disk_id that
\* follows a set_disk_id(Some(id)) that returned Ok returns Some(id).
C20_Step ==
    /\ lret'.op = "get_disk_id" => lret'.res.tag = "Ok"
    /\ (/\ lret.op = "set_disk_id"
        /\ IsSome(lret.id)
        /\ lret.res.tag = "Ok"
        /\ lret'.op = "get_disk_id") => lret'.res = Ok(lret.id)

C20_IdentityPersists == [][C20_Step]_vars

\* ---------------------------------- actions: placement, requests, batch delete
\* LocalDisk::new(endpoint) and then get_disk_location().
LocalGetDiskLocation ==
    \E endpoint \in Endpoints :
        /\ call' = [NoOp EXCEPT !.op = "get_disk_location", !.disk = "local",
                                !.ep = endpoint,
                                !.loc = LocalDisk_get_disk_location(endpoint)]
        /\ UNCHANGED <<hs, pureVars, remoteVars, concVars, localVars>>

\* RemoteDisk::new(endpoint) and then get_disk_location().
RemoteGetDiskLocation ==
    \E endpoint \in Endpoints :
        /\ call' = [NoOp EXCEPT !.op = "get_disk_location", !.disk = "remote",
                                !.ep = endpoint,
                                !.loc = RemoteDisk_get_disk_location(endpoint)]
        /\ UNCHANGED <<hs, pureVars, remoteVars, concVars, localVars>>

\* A control call: the request is sent if a client could be had.
RemoteControlRequest ==
    \E op \in {"make_volume", "make_volumes", "list_volumes", "stat_volume",
               "delete_volume"},
       volume \in Volumes, connected \in BOOLEAN :
        /\ call' = [NoOp EXCEPT !.op = op, !.disk = "remote", !.vol = volume,
                                !.req = IF connected
                                        THEN client_send(tonic_Request_new(op, volume))
                                        ELSE NoRequest]
        /\ UNCHANGED <<hs, pureVars, remoteVars, concVars, localVars>>

RemoteWalkDir ==
    /\ call' = [NoOp EXCEPT !.op = "walk_dir", !.disk = "remote",
                            !.req = RemoteDisk_walk_dir_request]
    /\ UNCHANGED <<hs, pureVars, remoteVars, concVars, localVars>>

RemoteReadFile ==
    \E volume \in Volumes, path \in RelPaths :
        /\ call' = [NoOp EXCEPT !.op = "read_file", !.disk = "remote",
                                !.vol = volume, !.path = path,
                                !.req = RemoteDisk_read_file_request(volume, path)]
        /\ UNCHANGED <<hs, pureVars, remoteVars, concVars, localVars>>

RemoteReadFileStream ==
    \E volume \in Volumes, path \in RelPaths, offset \in Offsets,
       length \in 0..MaxOffset :
        /\ call' = [NoOp EXCEPT !.op = "read_file_stream", !.disk = "remote",
                                !.vol = volume, !.path = path,
                                !.offset = offset, !.length = length,
                                !.req = RemoteDisk_read_file_stream_request(
                                            volume, path, offset, length)]
        /\ UNCHANGED <<hs, pureVars, remoteVars, concVars, localVars>>

RemoteAppendFile ==
    \E volume \in Volumes, path \in RelPaths :
        /\ call' = [NoOp EXCEPT !.op = "append_file", !.disk = "remote",
                                !.vol = volume, !.path = path,
                                !.req = RemoteDisk_append_file_request(volume, path)]
        /\ UNCHANGED <<hs, pureVars, remoteVars, concVars, localVars>>

\* delete_versions with a batch of n version sets.
LocalDeleteVersions ==
    \E n \in 0..MaxVersions :
        /\ call' = [NoOp EXCEPT !.op = "delete_versions", !.disk = "local",
                                !.n = n, !.res = LocalDisk_delete_versions(n)]
        /\ UNCHANGED <<hs, pureVars, remoteVars, concVars, localVars>>

RemoteDeleteVersions ==
    \E n \in 0..MaxVersions :
        /\ call' = [NoOp EXCEPT !.op = "delete_versions", !.disk = "remote",
                                !.n = n, !.res = RemoteDisk_delete_versions(n)]
        /\ UNCHANGED <<hs, pureVars, remoteVars, concVars, localVars>>

InitCalls == PureIdle /\ RemoteIdle /\ ConcIdle /\ LocalIdle /\ CallIdle

NextCalls ==
    \/ LocalGetDiskLocation
    \/ RemoteGetDiskLocation
    \/ RemoteControlRequest
    \/ RemoteWalkDir
    \/ RemoteReadFile
    \/ RemoteReadFileStream
    \/ RemoteAppendFile
    \/ LocalDeleteVersions
    \/ RemoteDeleteVersions

SpecCalls == InitCalls /\ [][NextCalls]_vars

\* ------------------------------------- actions: ranged reads and make_volumes
LocalReadFileStream ==
    \E volume \in Volumes, path \in RelPaths, offset \in Offsets,
       length \in 0..MaxOffset :
        LET o == LocalDisk_read_file_stream(fs, mounts, None, volume, path,
                                            offset, length)
        IN  /\ fs' = o.fs
            /\ call' = [NoOp EXCEPT !.op = "read_file_stream", !.disk = "local",
                                    !.vol = volume, !.path = path,
                                    !.offset = offset, !.length = length,
                                    !.res = o.res,
                                    !.bytes = IF o.res.tag = "Ok"
                                              THEN read_to_end(fs, Join(volume, path))
                                              ELSE <<>>]
            /\ UNCHANGED <<hs, mounts, lret, rn, seen, pureVars, remoteVars, concVars>>

LocalMakeVolumes ==
    \E volumes \in VolumeLists :
        \E failAt \in 0..Len(volumes) :
            LET o == LocalDisk_make_volumes(fs, mounts, failAt, volumes)
            IN  /\ fs' = o.fs
                /\ call' = [NoOp EXCEPT !.op = "make_volumes", !.disk = "local",
                                        !.vols = volumes, !.n = failAt,
                                        !.res = o.res]
                /\ UNCHANGED <<hs, mounts, lret, rn, seen, pureVars, remoteVars, concVars>>

\* Ranged reads on a disk that holds up to two files.
InitStream ==
    /\ PureIdle
    /\ RemoteIdle
    /\ ConcIdle
    /\ fs \in RenameDisks \cup {NewFs({})}
    /\ mounts = {}
    /\ lret = LocalCall("new", "-", <<>>, "-", <<>>, None, NewFs({}), Ok(<<>>))
    /\ rn = NoRename
    /\ seen = NoSeen
    /\ CallIdle

NextStream ==
    \/ LocalReadFileStream
    \/ RemoteReadFileStream

SpecStream == InitStream /\ [][NextStream]_vars

\* make_volumes and delete_volume on a disk that holds up to one file.
InitVolumes ==
    /\ PureIdle
    /\ RemoteIdle
    /\ ConcIdle
    /\ fs \in OneFileDisks \cup {NewFs({})}
    /\ mounts = {}
    /\ lret = LocalCall("new", "-", <<>>, "-", <<>>, None, NewFs({}), Ok(<<>>))
    /\ rn = NoRename
    /\ seen = NoSeen
    /\ CallIdle

NextVolumes ==
    \/ LocalMakeVolumes
    \/ LocalDeleteVolume

SpecVolumes == InitVolumes /\ [][NextVolumes]_vars

\* ------------------------------------------------------------ actions: close
close ==
    LET o == RemoteDisk_close(id)
    IN  /\ id' = o.id
        /\ ret' = Returned("close", NoTransport, id, o.res)
        /\ UNCHANGED <<lastSet, pureVars, concVars, localVars, callVars>>

LocalClose ==
    LET o == LocalDisk_close(fs)
    IN  /\ fs' = o.fs
        /\ lret' = LocalCall("close", "-", <<>>, "-", <<>>, None, fs, o.res)
        /\ UNCHANGED <<mounts, rn, seen, pureVars, remoteVars, concVars, callVars>>

\* Calls of close, of get_disk_id and set_disk_id, and a rename_file that a
\* task has in flight, in any order.
NextClose ==
    \/ close
    \/ LocalClose
    \/ get_disk_id
    \/ set_disk_id
    \/ RenameCall
    \/ RenameSyscall
    \/ RenameReturn
    \/ ObserverStat

SpecClose == InitRename /\ [][NextClose]_vars

\* ---------------------------------------------------------- actions: hashers
HasherWrite ==
    \E b \in HashBytes :
        /\ hs.written < MaxWritten
        /\ hs' = [hs EXCEPT !.h = Hasher_write(hs.h, <<b>>),
                            !.since = @ \o <<b>>,
                            !.written = @ + 1,
                            !.op = "write", !.pre = hs.h]
        /\ UNCHANGED <<call, pureVars, remoteVars, concVars, localVars>>

HasherReset ==
    /\ hs' = [hs EXCEPT !.h = Hasher_reset(hs.h), !.since = <<>>,
                        !.wasReset = TRUE, !.op = "reset", !.pre = hs.h]
    /\ UNCHANGED <<call, pureVars, remoteVars, concVars, localVars>>

HasherSum ==
    /\ hs' = [hs EXCEPT !.sum = Hasher_sum(hs.h), !.op = "sum", !.pre = hs.h]
    /\ UNCHANGED <<call, pureVars, remoteVars, concVars, localVars>>

InitHasher ==
    /\ PureIdle
    /\ RemoteIdle
    /\ ConcIdle
    /\ LocalIdle
    /\ call = NoOp
    /\ \E kind \in HasherKinds :
          hs = [NoHasher EXCEPT !.h = Hasher_new(kind), !.pre = Hasher_new(kind)]

NextHasher ==
    \/ HasherWrite
    \/ HasherReset
    \/ HasherSum

SpecHasher == InitHasher /\ [][NextHasher]_vars

\* ------------------------------------------------------------------- claims, continued
\* The three index fields of Endpoint and DiskLocation.
IndexFields == {"pool_idx", "set_idx", "disk_idx"}

\* C21: the location of a LocalDisk made from an endpoint with indexes
\* (p, s, d) reports exactly those values, whatever value a signed index
\* holds: a non-negative index comes back as itself, and an index that is
\* unset (negative) is not reported as present.
C21_LocalLocationExact ==
    (call.op = "get_disk_location" /\ call.disk = "local") =>
        \A x \in IndexFields :
            call.loc[x] = IF call.ep[x] < 0 THEN None ELSE Some(call.ep[x])

\* C22: RemoteDisk.get_disk_location reports each index as absent exactly
\* when the endpoint's index is negative and as that index otherwise, so the
\* location is valid iff all three endpoint indexes are non-negative.
C22_RemoteLocation ==
    (call.op = "get_disk_location" /\ call.disk = "remote") =>
        /\ \A x \in IndexFields :
              call.loc[x] = IF call.ep[x] < 0 THEN None ELSE Some(call.ep[x])
        /\ DiskLocation_valid(call.loc) <=> \A x \in IndexFields : call.ep[x] >= 0

\* One index unset, the other two reported as they are: not valid.
C22_Witness ==
    /\ call.op = "get_disk_location"
    /\ call.disk = "remote"
    /\ call.ep = [pool_idx |-> 0 - 1, set_idx |-> 1, disk_idx |-> 0]
    /\ call.loc = [pool_idx |-> None, set_idx |-> Some(1), disk_idx |-> Some(0)]
    /\ ~DiskLocation_valid(call.loc)

\* The calls C23 lists.
StreamingOps == {"walk_dir", "read_file", "read_file_stream", "append_file"}

C24_RangedRead ==
    call.op = "read_file_stream" =>
        /\ (call.disk = "local" /\ call.res.tag = "Ok" /\ call.length > 0) =>
              call.bytes = Range(read_to_end(fs, Join(call.vol, call.path)),
                                 call.offset, call.length)
        /\ call.disk = "remote" =>
              /\ ParseDecimal(call.req.offset) = call.offset
              /\ ParseDecimal(call.req.length) = call.length

\* C25: a call of close on a RemoteDisk or a LocalDisk returns Ok, whenever
\* it is made (again after a close, or while a rename_file is in flight), and
\* changes nothing: the cached identifier, the disk, the rename in flight and
\* what its observer saw are as before.
C25_Step ==
    /\ (ret'.op = "close" /\ ret' # ret) =>
          /\ ret'.res = Ok(<<>>)
          /\ ret'.pre = id
          /\ UNCHANGED <<id, lastSet, fs, mounts, lret, rn, seen>>
    /\ (lret'.op = "close" /\ lret' # lret) =>
          /\ lret'.res = Ok(<<>>)
          /\ UNCHANGED <<id, lastSet, ret, fs, mounts, rn, seen>>
    /\ (ret.op = "close" /\ ret'.op = "close") => id' = id

C25_CloseChangesNothing == [][C25_Step]_vars

\* Both disks were closed while a rename_file was between its call and its
\* system call, and the identifier that was set is still cached.
C25_Witness ==
    /\ ret.op = "close"
    /\ lret.op = "close"
    /\ rn.pc = "called"
    /\ IsSome(id)
    /\ ret.pre = id

\* C26: delete_versions given n version sets returns a list of exactly n
\* optional errors, on a LocalDisk and on a RemoteDisk.
C26_DeleteVersionsPerItem ==
    call.op = "delete_versions" =>
        /\ call.res.tag = "Ok"
        /\ Len(call.res.val) = call.n

\* C27: is_err_object_not_found(e) is true exactly when e is FileNotFound or
\* VolumeNotFound, is_err_version_not_found(e) exactly when e is
\* FileVersionNotFound, and is_all_not_found of the one-entry list
\* [VolumeNotFound] is false.
C27_SingleErrorPredicates ==
    /\ out.fn = "is_err_object_not_found" =>
          (out.val[1] <=> Unwrap(errs[out.i]).kind \in {"FileNotFound", "VolumeNotFound"})
    /\ out.fn = "is_err_version_not_found" =>
          (out.val[1] <=> Unwrap(errs[out.i]).kind = "FileVersionNotFound")
    /\ (out.fn = "is_all_not_found" /\ errs = <<Some(Unit("VolumeNotFound"))>>) =>
          out.val = <<FALSE>>

\* VolumeNotFound counted as object-not-found.
C27_Witness ==
    /\ out.fn = "is_err_object_not_found"
    /\ errs[out.i] = Some(Unit("VolumeNotFound"))
    /\ out.val = <<TRUE>>

\* C28: has_part_err of the conv_part_err_to_int codes of a list of optional
\* errors is false iff every entry of the list is absent; a present error of
\* any kind makes it true.
C28_PartErrOfOutcomes ==
    out.fn = "has_part_err(codes of errs)" =>
        (out.val[1] = FALSE <=> \A i \in 1..Len(errs) : errs[i] = None)

\* The only error present is of a kind that collapses to the unknown code.
C28_Witness ==
    /\ out.fn = "has_part_err(codes of errs)"
    /\ errs = <<None, Some(Unit("FileVersionNotFound"))>>
    /\ out.val = <<TRUE>>

\* C29: a make_volumes call on a LocalDisk whose k-th creation fails returns
\* that error, leaves every volume before the k-th a directory and creates
\* no volume that is not before the k-th; it returns Ok only if every volume
\* of the list is a directory afterwards, and Ok whenever no creation fails.
\* No file is touched.
C29_Step ==
    LET volumes == call'.vols
        k == call'.n
        Before == {volumes[i] : i \in 1..(k - 1)}
    IN  (call'.op = "make_volumes" /\ call' # call) =>
          /\ call'.res.tag = "Ok" <=> k = 0
          /\ call'.res.tag = "Ok" =>
                \A i \in 1..Len(volumes) : fs'[<<volumes[i]>>].t = "dir"
          /\ call'.res.tag = "Err" =>
                /\ call'.res = LocalDisk_make_volume(fs', mounts, FaultAt(k, k),
                                                     volumes[k]).res
                /\ \A v \in Before : fs'[<<v>>].t = "dir"
                /\ \A v \in Volumes \ Before : fs'[<<v>>] = fs[<<v>>]
          /\ \A p \in FsPaths : Len(p) > 1 => fs'[p] = fs[p]

C29_MakeVolumesStopsAtFirstFailure == [][C29_Step]_vars

\* The second of two creations failed: the first volume is there, the second
\* is not.
C29_Witness ==
    /\ call.op = "make_volumes"
    /\ call.vols = <<"v1", "v2">>
    /\ call.n = 2
    /\ call.res.tag = "Err"
    /\ fs[<<"v1">>].t = "dir"
    /\ fs[<<"v2">>].t = "none"

\* C30: after reset, sum of any hasher (Sha256, MD5, Uuid, and HashType
\* around each) is the sum of a newly made hasher of the kind fed the bytes
\* written since the reset, and sum leaves the hasher as it was.
C30_ResetForgets ==
    hs.op = "sum" =>
        /\ hs.h = hs.pre
        /\ hs.wasReset =>
              hs.sum = Hasher_sum(Hasher_write(Hasher_new(hs.h.kind), hs.since))

====
